---------------------------- MODULE Spec2Model ----------------------------
(***************************************************************************)
(* A model of electrum/transaction.py (electrum-ravencoin): the stream     *)
(* codec, the network transaction codec, the Transaction object with its   *)
(* serialization and txid caches, and the partial-transaction (PSBT)       *)
(* object model with finalize / combine / join / BIP-69 ordering.          *)
(*                                                                         *)
(* Conventions.                                                            *)
(*  - A byte string is a sequence over 0..255.                             *)
(*  - A Python Optional is NONE (the empty tuple) or Some(x) == <<x>>.     *)
(*  - Fixed-width integers (version, locktime, nSequence, prevout index,   *)
(*    output value) are kept as their little-endian byte tuples: TLC's     *)
(*    integers are 32-bit signed, the program's are not.  Comparisons on   *)
(*    them are done on the tuples, most significant byte first.            *)
(*  - An exception is a string naming its class; "ok" means none.          *)
(***************************************************************************)
EXTENDS Integers, Sequences, FiniteSets, TLC

VARIABLES raw, tx, other, err, ret, ops, hist

vars == <<raw, tx, other, err, ret, ops, hist>>

-----------------------------------------------------------------------------
(* Bounds of the model. *)

\* number of mutating calls explored on one Transaction object
MaxOps == 2

-----------------------------------------------------------------------------
(* Generic helpers. *)

NONE == <<>>

Some(x) == <<x>>

IsNone(o) == o = <<>>

Min(a, b) == IF a < b THEN a ELSE b

\* "let v = e in F(v)": e is written, and evaluated, once
Bind(v, F(_)) == F(v)

\* "r = call(); ..." where the call may raise: the exception is passed on
\* in onerr, the value that a raise at this point yields
Try(r, onerr, F(_)) == IF r.err # "ok" THEN [onerr EXCEPT !.err = r.err] ELSE F(r)

Rep(b, n) == [i \in 1..n |-> b]

\* Python's s[lo:hi] with 0-based, clipped bounds.
Slice(s, lo, hi) == SubSeq(s, lo + 1, Min(hi, Len(s)))

\* Python's s[::-1]
Reverse(s) == [i \in 1..Len(s) |-> s[Len(s) + 1 - i]]

\* The value of a little-endian byte string, saturated at Huge: it is only
\* used as a length or a count, and every n above the buffer length makes
\* the following read fail in the same way.
Huge == 1000000

RECURSIVE LEValue(_)
LEValue(bs) ==
    IF bs = <<>> THEN 0
    ELSE LET hi == LEValue(Tail(bs))
         IN  Min(Huge, bs[1] + 256 * Min(hi, Huge))

\* unsigned comparison of two little-endian tuples of the same width
RECURSIVE LELess(_, _)
LELess(x, y) ==
    IF x = <<>> THEN FALSE
    ELSE LET n == Len(x)
         IN  IF x[n] # y[n] THEN x[n] < y[n]
             ELSE LELess(SubSeq(x, 1, n - 1), SubSeq(y, 1, n - 1))

\* lexicographic comparison of byte strings (Python bytes.__lt__)
FirstDiff(x, y) ==
    {i \in 1..Min(Len(x), Len(y)) :
        x[i] # y[i] /\ \A j \in 1..(i - 1) : x[j] = y[j]}

BytesLess(x, y) ==
    IF FirstDiff(x, y) = {} THEN Len(x) < Len(y)
    ELSE \E i \in FirstDiff(x, y) : x[i] < y[i]

RECURSIVE Concat(_)
Concat(ss) == IF ss = <<>> THEN <<>> ELSE ss[1] \o Concat(Tail(ss))

-----------------------------------------------------------------------------
(* ravencoin.py helpers used by transaction.py. *)

\* var_int(n): the canonical compact-size encoding
var_int(n) ==
    IF n < 253 THEN <<n>>
    ELSE IF n < 65536 THEN <<253, n % 256, n \div 256>>
    ELSE <<254, n % 256, (n \div 256) % 256, (n \div 65536) % 256, n \div 16777216>>

\* push_script(data): the minimal push of a byte string
push_script(data) ==
    IF Len(data) = 0 \/ (Len(data) = 1 /\ data[1] = 0) THEN <<0>>
    ELSE IF Len(data) = 1 /\ data[1] <= 16 THEN <<80 + data[1]>>
    ELSE IF Len(data) = 1 /\ data[1] = 129 THEN <<79>>
    ELSE IF Len(data) < 76 THEN <<Len(data)>> \o data
    ELSE IF Len(data) < 256 THEN <<76, Len(data)>> \o data
    ELSE <<77, Len(data) % 256, Len(data) \div 256>> \o data

\* add_number_to_script(i) for the small numbers scripts use: OP_0, OP_1..OP_16
add_number_to_script(i) == IF i = 0 THEN <<0>> ELSE <<80 + i>>

\* multisig_script(public_keys, m): [err, v]; asserts 1 <= m <= n <= 15
multisig_script(public_keys, m) ==
    LET n == Len(public_keys)
    IN  IF ~(1 <= m /\ m <= n /\ n <= 15)
        THEN [err |-> "AssertionError", v |-> <<>>]
        ELSE [err |-> "ok",
              v |-> add_number_to_script(m)
                    \o Concat([i \in 1..n |-> push_script(public_keys[i])])
                    \o add_number_to_script(n) \o <<174>>]

\* construct_witness(items): count, then each item length-prefixed
construct_witness(items) ==
    var_int(Len(items)) \o Concat([i \in 1..Len(items) |-> var_int(Len(items[i])) \o items[i]])

\* A digest of 32 bytes standing for a cryptographic hash: the length and
\* seven position-weighted sums of the bytes, then filler.  It separates the
\* byte strings the model hashes.
RECURSIVE WSum(_, _, _, _)
WSum(bs, lo, hi, j) ==
    IF lo > hi THEN 0
    ELSE IF lo = hi THEN (bs[lo] + 1) * (((lo * j) % 251) + 1)
    ELSE WSum(bs, lo, (lo + hi) \div 2, j) + WSum(bs, ((lo + hi) \div 2) + 1, hi, j)

Digest(bs, salt) ==
    <<(Len(bs) + salt) % 256>> \o [j \in 1..7 |-> (WSum(bs, 1, Len(bs), j) + salt) % 256] \o Rep(90, 24)

\* crypto.sha256
sha256(bs) == Digest(bs, 2)

\* crypto.sha256d, modelled as a 32-byte digest
sha256d(bs) == Digest(bs, 1)

-----------------------------------------------------------------------------
(* BCDataStream: reads return [err, v, pos]; pos is the read cursor. *)

Rd(e, v, p) == [err |-> e, v |-> v, pos |-> p]

read_bytes(inp, pos, length) ==
    IF pos + length <= Len(inp)
    THEN Rd("ok", SubSeq(inp, pos + 1, pos + length), pos + length)
    ELSE Rd("SerializationError", <<>>, pos)

\* _read_num(format): struct.unpack_from of w bytes at the cursor
read_num(inp, pos, w) ==
    IF pos + w <= Len(inp)
    THEN Rd("ok", SubSeq(inp, pos + 1, pos + w), pos + w)
    ELSE Rd("SerializationError", <<>>, pos)

read_compact_size(inp, pos) ==
    IF pos >= Len(inp) THEN Rd("SerializationError", 0, pos)
    ELSE LET size == inp[pos + 1]
             w == IF size = 253 THEN 2 ELSE IF size = 254 THEN 4 ELSE 8
             r == read_num(inp, pos + 1, w)
         IN  IF size < 253 THEN Rd("ok", size, pos + 1)
             ELSE IF r.err # "ok" THEN Rd(r.err, 0, pos + 1)
             ELSE Rd("ok", LEValue(r.v), r.pos)

can_read_more(inp, pos) == pos < Len(inp)

-----------------------------------------------------------------------------
(* Opcodes and sighash flags. *)

OP_PUSHDATA1 == 76

OP_PUSHDATA2 == 77

OP_PUSHDATA4 == 78

OP_RVN_ASSET == 192

\* class SIGHASH: ALL, NONE, SINGLE, ANYONECANPAY and the three sums
SIGHASH == {1, 2, 3, 128, 129, 130, 131}

-----------------------------------------------------------------------------
(* script_GetOp: the list of (opcode, vch, i) triples the generator yields, *)
(* or MalformedBitcoinScript.  vch is NONE for a non-push opcode.           *)

RECURSIVE GetOpFrom(_, _, _)
GetOpFrom(bs, i0, acc) ==
    IF i0 >= Len(bs) THEN [err |-> "ok", ops |-> acc]
    ELSE LET opcode == bs[i0 + 1]
             i == i0 + 1
             w == IF opcode = OP_PUSHDATA1 THEN 1
                  ELSE IF opcode = OP_PUSHDATA2 THEN 2
                  ELSE IF opcode = OP_PUSHDATA4 THEN 4 ELSE 0
             nSize == IF w = 0 THEN opcode ELSE LEValue(SubSeq(bs, i + 1, i + w))
             j == i + w
         IN  IF opcode > OP_PUSHDATA4
             THEN GetOpFrom(bs, i, Append(acc, [op |-> opcode, vch |-> NONE, i |-> i]))
             ELSE IF i + w > Len(bs)
             THEN [err |-> "MalformedBitcoinScript", ops |-> acc]
             ELSE GetOpFrom(bs, j + nSize,
                            Append(acc, [op |-> opcode,
                                         vch |-> Some(Slice(bs, j, j + nSize)),
                                         i |-> j + nSize]))

script_GetOp(bs) == GetOpFrom(bs, 0, <<>>)

-----------------------------------------------------------------------------
(* The data model.  One record shape serves TxInput and PartialTxInput     *)
(* ("partial" tells them apart, as isinstance does), and likewise outputs.  *)

EmptyMap == <<>>

TxOutpoint(txid, out_idx) == [txid |-> txid, out_idx |-> out_idx]

TxInput(prevout, script_sig, nsequence, witness, sighash) ==
    [prevout |-> prevout, script_sig |-> script_sig, nsequence |-> nsequence,
     witness |-> witness, sighash |-> sighash, partial |-> FALSE,
     utxo |-> NONE, witness_utxo |-> NONE, part_sigs |-> EmptyMap,
     bip32_paths |-> EmptyMap, redeem_script |-> NONE, witness_script |-> NONE,
     unknown |-> EmptyMap, script_type |-> "unknown", num_sig |-> 0,
     pubkeys |-> <<>>, native_memo |-> NONE, p2sh_memo |-> NONE]

TxOutput(scriptpubkey, value, asset) ==
    [scriptpubkey |-> scriptpubkey, value |-> value, asset |-> asset,
     partial |-> FALSE, redeem_script |-> NONE, witness_script |-> NONE,
     bip32_paths |-> EmptyMap, unknown |-> EmptyMap]

\* TxOutpoint.is_coinbase
is_coinbase(prevout) == prevout.txid = Rep(0, 32)

\* TxInput.is_segwit
TxInput_is_segwit(txin) == txin.witness \notin {Some(<<0>>), Some(<<>>), NONE}

-----------------------------------------------------------------------------
(* parse_input, parse_output, parse_witness. *)

\* the sighash guessed from the first push of the script-sig
parse_sigtype(script_sig) ==
    Bind(script_GetOp(script_sig), LAMBDA g :
        \* only the first triple is pulled from the generator
        IF g.ops = <<>> THEN NONE
        ELSE Bind(g.ops[1].vch, LAMBDA vch :
            IF IsNone(vch) \/ vch[1] = <<>> THEN NONE
            ELSE IF vch[1][Len(vch[1])] \in SIGHASH THEN Some(vch[1][Len(vch[1])])
            ELSE NONE))

parse_input(inp, pos) ==
    Try(read_bytes(inp, pos, 32), Rd("", <<>>, pos), LAMBDA h :
    Try(read_num(inp, h.pos, 4), Rd("", <<>>, pos), LAMBDA n :
    Try(read_compact_size(inp, n.pos), Rd("", <<>>, pos), LAMBDA l :
    Try(read_bytes(inp, l.pos, l.v), Rd("", <<>>, pos), LAMBDA s :
    Try(read_num(inp, s.pos, 4), Rd("", <<>>, pos), LAMBDA q :
    Rd("ok", TxInput(TxOutpoint(Reverse(h.v), n.v), Some(s.v), q.v,
                     NONE, parse_sigtype(s.v)), q.pos))))))

\* b'rvn'
RVN == <<114, 118, 110>>

\* the nominal quantity of an ownership asset, 100_000_000, as 8 LE bytes
OwnerAmount == <<0, 225, 245, 5, 0, 0, 0, 0>>

PadLE8(bs) == bs \o Rep(0, 8 - Len(bs))

search_for_rvn(b, start) ==
    IF Slice(b, start, start + 3) = RVN THEN start + 3
    ELSE IF Slice(b, start + 1, start + 4) = RVN THEN start + 4
    ELSE -1

\* get_assets_from_script: [err, found, name, amt]; indices are Python's.
get_assets_from_script(script) ==
    LET n == Len(script)
        At(k) == script[k + 1]
        no == [err |-> "ok", found |-> FALSE, name |-> <<>>, amt |-> <<>>]
        bad(e) == [err |-> e, found |-> FALSE, name |-> <<>>, amt |-> <<>>]
    IN  IF n = 0 THEN bad("IndexError")
        ELSE IF At(0) = 169 /\ n < 2 THEN bad("IndexError")
        ELSE IF At(0) = 169 /\ At(1) = 20 /\ n < 23 THEN bad("IndexError")
        ELSE LET sh == At(0) = 169 /\ At(1) = 20 /\ At(22) = 135
                 index == search_for_rvn(script, IF sh THEN 25 ELSE 27)
             IN  IF index <= 0 THEN no
                 ELSE IF index + 1 >= n THEN bad("IndexError")
                 ELSE LET type == At(index)
                          len == At(index + 1)
                          name == Slice(script, index + 2, index + 2 + len)
                          amt == IF type # 111
                                 THEN PadLE8(Slice(script, index + 2 + len, index + 10 + len))
                                 ELSE OwnerAmount
                      IN  IF \E k \in 1..Len(name) : name[k] >= 128
                          THEN bad("UnicodeDecodeError")
                          ELSE [err |-> "ok", found |-> TRUE, name |-> name, amt |-> amt]

\* TOTAL_COIN_SUPPLY_LIMIT_IN_BTC * COIN = 21e9 * 1e8, as 8 LE bytes
SupplyLimit == <<0, 0, 82, 172, 223, 178, 36, 29>>

parse_output(inp, pos) ==
    Try(read_num(inp, pos, 8), Rd("", <<>>, pos), LAMBDA v :
    IF LELess(SupplyLimit, v.v) \/ v.v[8] >= 128
    THEN Rd("SerializationError", <<>>, pos)
    ELSE
    Try(read_compact_size(inp, v.pos), Rd("", <<>>, pos), LAMBDA l :
    Try(read_bytes(inp, l.pos, l.v), Rd("", <<>>, pos), LAMBDA s :
    Try(get_assets_from_script(s.v), Rd("", <<>>, pos), LAMBDA a :
    IF a.found THEN Rd("ok", TxOutput(s.v, a.amt, a.name), s.pos)
    ELSE Rd("ok", TxOutput(s.v, v.v, <<>>), s.pos)))))

RECURSIVE read_elements(_, _, _, _)
read_elements(inp, pos, n, acc) ==
    IF n = 0 THEN Rd("ok", acc, pos)
    ELSE Try(read_compact_size(inp, pos), Rd("", acc, pos), LAMBDA l :
         Try(read_bytes(inp, l.pos, l.v), Rd("", acc, pos), LAMBDA e :
         read_elements(inp, e.pos, n - 1, Append(acc, e.v))))

\* parse_witness: the witness bytes rebuilt from the elements read
parse_witness(inp, pos) ==
    Try(read_compact_size(inp, pos), Rd("", <<>>, pos), LAMBDA n :
    Try(read_elements(inp, n.pos, n.v, <<>>), Rd("", <<>>, pos), LAMBDA es :
    Rd("ok", construct_witness(es.v), es.pos)))

RECURSIVE parse_inputs(_, _, _, _)
parse_inputs(inp, pos, n, acc) ==
    IF n = 0 THEN Rd("ok", acc, pos)
    ELSE Try(parse_input(inp, pos), Rd("", acc, pos), LAMBDA r :
         parse_inputs(inp, r.pos, n - 1, Append(acc, r.v)))

RECURSIVE parse_outputs(_, _, _, _)
parse_outputs(inp, pos, n, acc) ==
    IF n = 0 THEN Rd("ok", acc, pos)
    ELSE Try(parse_output(inp, pos), Rd("", acc, pos), LAMBDA r :
         parse_outputs(inp, r.pos, n - 1, Append(acc, r.v)))

\* the loop "for txin in self._inputs: parse_witness(vds, txin)": the inputs
\* with the witnesses read so far, also when a later one fails
RECURSIVE parse_witnesses(_, _, _, _)
parse_witnesses(inp, pos, ins, k) ==
    IF k > Len(ins) THEN Rd("ok", ins, pos)
    ELSE Try(parse_witness(inp, pos), Rd("", ins, pos), LAMBDA r :
         parse_witnesses(inp, r.pos, [ins EXCEPT ![k].witness = Some(r.v)], k + 1))

-----------------------------------------------------------------------------
(* Script templates and addresses.  A template item is the set of opcodes   *)
(* it accepts: match_script_against_template applies both check_data_len    *)
(* and the opcode comparison to script_item[0], the opcode.                 *)

SCRIPTPUBKEY_TEMPLATE_P2PK == <<{33, 65}, {172}>>

SCRIPTPUBKEY_TEMPLATE_P2PKH == <<{118}, {169}, {20}, {136}, {172}>>

SCRIPTPUBKEY_TEMPLATE_P2SH == <<{169}, {20}, {135}>>

SCRIPTPUBKEY_TEMPLATE_WITNESS_V0 == <<{0}, {20, 32}>>

SCRIPTPUBKEY_TEMPLATE_P2WPKH == <<{0}, {20}>>

SCRIPTPUBKEY_TEMPLATE_P2WSH == <<{0}, {32}>>

\* [opcode, push 2..40] for opcode in OP_1..OP_16
TemplateWitnessFuture == <<81..96, 2..40>>

\* the decoded script cut at the first OP_RVN_ASSET
ChopAsset(decoded) ==
    LET hits == {i \in 1..Len(decoded) : decoded[i].op = OP_RVN_ASSET}
    IN  IF hits = {} THEN decoded
        ELSE SubSeq(decoded, 1, (CHOOSE i \in hits : \A j \in hits : i <= j) - 1)

\* match_script_against_template on a decoded script
match_decoded(decoded, template) ==
    LET script == ChopAsset(decoded)
    IN  /\ Len(script) = Len(template)
        /\ \A i \in 1..Len(script) : script[i].op \in template[i]

\* match_script_against_template on bytes (None is passed as NONE)
match_script_against_template(script, template) ==
    IF IsNone(script) THEN FALSE
    ELSE Bind(script_GetOp(script[1]), LAMBDA g :
             g.err = "ok" /\ match_decoded(g.ops, template))

\* get_script_type_from_output_script
get_script_type_from_output_script(bs) ==
    IF IsNone(bs) THEN "none"
    ELSE Bind(script_GetOp(bs[1]), LAMBDA g :
         IF g.err # "ok" THEN "none"
         ELSE IF match_decoded(g.ops, SCRIPTPUBKEY_TEMPLATE_P2PKH) THEN "p2pkh"
         ELSE IF match_decoded(g.ops, SCRIPTPUBKEY_TEMPLATE_P2SH) THEN "p2sh"
         ELSE IF match_decoded(g.ops, SCRIPTPUBKEY_TEMPLATE_P2WPKH) THEN "p2wpkh"
         ELSE IF match_decoded(g.ops, SCRIPTPUBKEY_TEMPLATE_P2WSH) THEN "p2wsh"
         ELSE IF match_decoded(g.ops, SCRIPTPUBKEY_TEMPLATE_P2PK) THEN "p2pk"
         ELSE "none")

\* hash_160, modelled as a 20-byte digest that is injective on the scripts
\* and keys of the model (their lengths and first bytes differ)
hash_160(bs) == <<Len(bs) % 256>> \o [i \in 1..19 |-> IF i <= Len(bs) THEN bs[i] ELSE 0]

\* an address: its kind and payload (the encoders are injective)
Address(kind, h) == [kind |-> kind, h |-> h]

hash160_to_p2pkh(h) == Address("p2pkh", h)

hash160_to_p2sh(h) == Address("p2sh", h)

hash_to_segwit_addr(h, witver) == Address("segwit", <<witver>> \o h)

is_segwit_address(addr) == addr.kind = "segwit"

\* get_address_from_output_script: NONE or Some(address)
get_address_from_output_script(bs) ==
    Bind(script_GetOp(bs), LAMBDA g :
    IF g.err # "ok" THEN NONE
    ELSE Bind(ChopAsset(g.ops), LAMBDA decoded :
         IF match_decoded(decoded, SCRIPTPUBKEY_TEMPLATE_P2PK)
         THEN Some(hash160_to_p2pkh(hash_160(decoded[1].vch[1])))
         ELSE IF match_decoded(decoded, SCRIPTPUBKEY_TEMPLATE_P2PKH)
         THEN Some(hash160_to_p2pkh(decoded[3].vch[1]))
         ELSE IF match_decoded(decoded, SCRIPTPUBKEY_TEMPLATE_P2SH)
         THEN Some(hash160_to_p2sh(decoded[2].vch[1]))
         ELSE IF match_decoded(decoded, SCRIPTPUBKEY_TEMPLATE_WITNESS_V0)
         THEN Some(hash_to_segwit_addr(decoded[2].vch[1], 0))
         ELSE IF match_decoded(decoded, TemplateWitnessFuture)
         THEN Some(hash_to_segwit_addr(decoded[2].vch[1], decoded[1].op - 80))
         ELSE NONE))

\* is_segwit_script_type
is_segwit_script_type(t) == t \in {"p2wpkh", "p2wpkh-p2sh", "p2wsh", "p2wsh-p2sh"}

-----------------------------------------------------------------------------
(* PartialTxInput.  A method that may write the input (the memo fields      *)
(* _is_native_segwit and _is_p2sh_segwit) returns [v, x]: its value and the *)
(* input after the call; one that may raise returns [err, v, x].            *)
(* utxo is NONE or Some([txid, outputs]); _trusted_address is never set.    *)

Ret(v, x) == [v |-> v, x |-> x]

RetE(e, v, x) == [err |-> e, v |-> v, x |-> x]

Truthy(optbytes) == optbytes # NONE /\ optbytes[1] # <<>>

\* PartialTxInput.scriptpubkey
scriptpubkey(x) ==
    IF x.utxo # NONE
    THEN Some(x.utxo[1].outputs[1][LEValue(x.prevout.out_idx) + 1].scriptpubkey)
    ELSE IF x.witness_utxo # NONE THEN Some(x.witness_utxo[1].scriptpubkey)
    ELSE NONE

\* PartialTxInput.address
address(x) ==
    Bind(scriptpubkey(x), LAMBDA spk :
        IF Truthy(spk) THEN get_address_from_output_script(spk[1]) ELSE NONE)

is_native_segwit(x) ==
    IF x.native_memo # NONE THEN Ret(x.native_memo, x)
    ELSE Bind(address(x), LAMBDA a :
         IF a = NONE THEN Ret(NONE, x)
         ELSE Ret(Some(is_segwit_address(a[1])),
                  [x EXCEPT !.native_memo = Some(is_segwit_address(a[1]))]))

calc_if_p2sh_segwit_now(x) ==
    Bind(address(x), LAMBDA a :
    IF ~(a # NONE /\ Truthy(x.redeem_script)) THEN NONE
    ELSE IF a[1] # hash160_to_p2sh(hash_160(x.redeem_script[1])) THEN Some(FALSE)
    ELSE Some(\/ match_script_against_template(x.redeem_script, SCRIPTPUBKEY_TEMPLATE_WITNESS_V0)
              \/ match_script_against_template(x.redeem_script, TemplateWitnessFuture)))

is_p2sh_segwit(x) ==
    IF x.p2sh_memo # NONE THEN Ret(x.p2sh_memo, x)
    ELSE Bind(calc_if_p2sh_segwit_now(x), LAMBDA v :
         Ret(v, [x EXCEPT !.p2sh_memo = v]))

PartialTxInput_is_segwit(x) ==
    IF TxInput_is_segwit(x) THEN Ret(TRUE, x)
    ELSE Bind(is_native_segwit(x), LAMBDA n :
         IF n.v = Some(TRUE) THEN Ret(TRUE, n.x)
         ELSE Bind(is_p2sh_segwit(n.x), LAMBDA p :
              IF p.v = Some(TRUE) THEN Ret(TRUE, p.x)
              ELSE IF n.v = Some(FALSE) /\ p.v = Some(FALSE) THEN Ret(FALSE, p.x)
              ELSE IF Truthy(x.witness_script) THEN Ret(TRUE, p.x)
              ELSE Ret(is_segwit_script_type(x.script_type), p.x)))

is_segwit(x) == IF x.partial THEN PartialTxInput_is_segwit(x) ELSE Ret(TxInput_is_segwit(x), x)

SingleSigTypes == {"p2pk", "p2pkh", "p2wpkh", "p2wpkh-p2sh"}

MultiSigTypes == {"p2sh", "p2wsh", "p2wsh-p2sh"}

\* the tail of PartialTxInput.is_complete: the signature count by script type
enough_signatures(x) ==
    IF x.script_type \in SingleSigTypes THEN Cardinality(DOMAIN x.part_sigs) >= 1
    ELSE IF x.script_type \in MultiSigTypes THEN Cardinality(DOMAIN x.part_sigs) >= x.num_sig
    ELSE FALSE

\* is_complete without the coinbase case
is_complete_without_coinbase(x) ==
    IF x.script_sig # NONE /\ x.witness # NONE THEN Ret(TRUE, x)
    ELSE IF x.script_sig = NONE THEN Ret(enough_signatures(x), x)
    ELSE Bind(is_segwit(x), LAMBDA sg :
         IF ~sg.v THEN Ret(TRUE, sg.x) ELSE Ret(enough_signatures(x), sg.x))

\* PartialTxInput.is_complete
is_complete(x) ==
    IF x.script_sig # NONE /\ x.witness # NONE THEN Ret(TRUE, x)
    ELSE IF is_coinbase(x.prevout) THEN Ret(TRUE, x)
    ELSE IF x.script_sig = NONE THEN Ret(enough_signatures(x), x)
    ELSE Bind(is_segwit(x), LAMBDA sg :
         IF ~sg.v THEN Ret(TRUE, sg.x) ELSE Ret(enough_signatures(x), sg.x))

\* a plain TxInput has no is_complete; Transaction.is_complete is True
txin_is_complete(x) == IF x.partial THEN is_complete(x) ELSE Ret(TRUE, x)

\* [sig for sig in sig_list if sig]
RECURSIVE NonEmpty(_)
NonEmpty(l) ==
    IF l = <<>> THEN <<>>
    ELSE IF l[1] = <<>> THEN NonEmpty(Tail(l))
    ELSE <<l[1]>> \o NonEmpty(Tail(l))

\* [txin.part_sigs.get(pubkey, b'') for pubkey in txin.pubkeys]
SigsByPubkey(x) ==
    [i \in 1..Len(x.pubkeys) |->
        IF x.pubkeys[i] \in DOMAIN x.part_sigs THEN x.part_sigs[x.pubkeys[i]] ELSE <<>>]

\* Transaction.get_siglist (estimate_size=False): [pks, sigs, x]
get_siglist(x) ==
    IF is_coinbase(x.prevout) THEN [pks |-> <<>>, sigs |-> <<>>, x |-> x]
    ELSE Bind(is_complete(x), LAMBDA c :
         [pks |-> x.pubkeys,
          sigs |-> IF c.v THEN NonEmpty(SigsByPubkey(x)) ELSE SigsByPubkey(x),
          x |-> c.x])

PushAll(items) == Concat([i \in 1..Len(items) |-> push_script(items[i])])

\* Transaction.input_script (estimate_size=False)
input_script(x) ==
    IF x.script_sig # NONE THEN RetE("ok", x.script_sig[1], x)
    ELSE IF is_coinbase(x.prevout) THEN RetE("ok", <<>>, x)
    ELSE IF ~x.partial THEN RetE("AssertionError", <<>>, x)
    ELSE Bind(is_p2sh_segwit(x), LAMBDA p :
    IF p.v = Some(TRUE) /\ Truthy(x.redeem_script)
    THEN RetE("ok", push_script(x.redeem_script[1]), p.x)
    ELSE Bind(is_native_segwit(p.x), LAMBDA n :
    IF n.v = Some(TRUE) THEN RetE("ok", <<>>, n.x)
    ELSE Bind(get_siglist(n.x), LAMBDA g :
    IF x.script_type = "p2pk"
    THEN IF g.sigs = <<>> THEN RetE("IndexError", <<>>, g.x)
         ELSE RetE("ok", push_script(g.sigs[1]), g.x)
    ELSE IF x.script_type = "p2sh"
    THEN Try(multisig_script(g.pks, x.num_sig), RetE("", <<>>, g.x), LAMBDA ms :
         RetE("ok", <<0>> \o PushAll(g.sigs) \o push_script(ms.v), g.x))
    ELSE IF x.script_type = "p2pkh"
    THEN IF g.sigs = <<>> \/ g.pks = <<>> THEN RetE("IndexError", <<>>, g.x)
         ELSE RetE("ok", push_script(g.sigs[1]) \o push_script(g.pks[1]), g.x)
    ELSE IF x.script_type \in {"p2wpkh", "p2wsh"} THEN RetE("ok", <<>>, g.x)
    ELSE IF x.script_type \in {"p2wpkh-p2sh", "p2wsh-p2sh"}
    THEN RetE("NotImplementedError", <<>>, g.x)
    ELSE RetE("UnknownTxinType", <<>>, g.x))))

\* Transaction.serialize_witness (estimate_size=False)
serialize_witness(x) ==
    IF x.witness # NONE THEN RetE("ok", x.witness[1], x)
    ELSE IF is_coinbase(x.prevout) THEN RetE("ok", <<>>, x)
    ELSE IF ~x.partial THEN RetE("AssertionError", <<>>, x)
    ELSE Bind(is_segwit(x), LAMBDA sg :
    IF ~sg.v THEN RetE("ok", construct_witness(<<>>), sg.x)
    ELSE Bind(get_siglist(sg.x), LAMBDA g :
    IF x.script_type \in {"p2wpkh", "p2wpkh-p2sh"}
    THEN IF g.sigs = <<>> \/ g.pks = <<>> THEN RetE("IndexError", <<>>, g.x)
         ELSE RetE("ok", construct_witness(<<g.sigs[1], g.pks[1]>>), g.x)
    ELSE IF x.script_type \in {"p2wsh", "p2wsh-p2sh"}
    THEN Try(multisig_script(g.pks, x.num_sig), RetE("", <<>>, g.x), LAMBDA ms :
         RetE("ok", construct_witness(<<<<>>>> \o g.sigs \o <<ms.v>>), g.x))
    ELSE IF x.script_type \in {"p2pk", "p2pkh", "p2sh"}
    THEN RetE("ok", construct_witness(<<>>), g.x)
    ELSE RetE("UnknownTxinType", <<>>, g.x)))

\* clear_fields_when_finalized
clear_fields_when_finalized(x) ==
    [x EXCEPT !.part_sigs = EmptyMap, !.bip32_paths = EmptyMap,
              !.redeem_script = NONE, !.witness_script = NONE]

\* finalize that clears the fields only where the input was final already
finalize_without_clearing(x) ==
    IF x.script_sig # NONE /\ x.witness # NONE
    THEN [err |-> "ok", x |-> clear_fields_when_finalized(x)]
    ELSE Bind(is_complete(x), LAMBDA c :
    IF ~c.v THEN [err |-> "ok", x |-> c.x]
    ELSE Bind(input_script(c.x), LAMBDA s :
    IF s.err # "ok" THEN [err |-> s.err, x |-> s.x]
    ELSE Bind(serialize_witness([s.x EXCEPT !.script_sig = Some(s.v)]), LAMBDA w :
    IF w.err # "ok" THEN [err |-> w.err, x |-> w.x]
    ELSE [err |-> "ok", x |-> [w.x EXCEPT !.witness = Some(w.v)]])))

\* finalize that does not ask is_complete before it builds the scripts
finalize_without_completion_check(x) ==
    IF x.script_sig # NONE /\ x.witness # NONE
    THEN [err |-> "ok", x |-> clear_fields_when_finalized(x)]
    ELSE Bind(input_script(x), LAMBDA s :
    IF s.err # "ok" THEN [err |-> s.err, x |-> s.x]
    ELSE Bind(serialize_witness([s.x EXCEPT !.script_sig = Some(s.v)]), LAMBDA w :
    IF w.err # "ok" THEN [err |-> w.err, x |-> w.x]
    ELSE [err |-> "ok",
          x |-> clear_fields_when_finalized([w.x EXCEPT !.witness = Some(w.v)])]))

\* PartialTxInput.finalize: [err, x]; on a raise x is the input as left
finalize(x) ==
    IF x.script_sig # NONE /\ x.witness # NONE
    THEN [err |-> "ok", x |-> clear_fields_when_finalized(x)]
    ELSE Bind(is_complete(x), LAMBDA c :
    IF ~c.v THEN [err |-> "ok", x |-> c.x]
    ELSE Bind(input_script(c.x), LAMBDA s :
    IF s.err # "ok" THEN [err |-> s.err, x |-> s.x]
    ELSE Bind(serialize_witness([s.x EXCEPT !.script_sig = Some(s.v)]), LAMBDA w :
    IF w.err # "ok" THEN [err |-> w.err, x |-> w.x]
    ELSE [err |-> "ok",
          x |-> clear_fields_when_finalized([w.x EXCEPT !.witness = Some(w.v)])])))

-----------------------------------------------------------------------------
(* Transaction: the object is a record; a method returns [err, v, t], the   *)
(* exception, the value and the object after the call.                     *)

\* Transaction.__init__(raw): raw is NONE or Some(bytes)
Transaction(rawopt) ==
    [ser |-> rawopt, inputs |-> NONE, outputs |-> NONE,
     locktime |-> <<0, 0, 0, 0>>, version |-> <<2, 0, 0, 0>>,
     cached_txid |-> NONE, partial |-> FALSE, for_swap |-> FALSE,
     xpubs |-> EmptyMap, unknown |-> EmptyMap]

TRet(e, v, t) == [err |-> e, v |-> v, t |-> t]

\* TxOutput.serialize_to_network
TxOutput_serialize_to_network(o) ==
    (IF o.asset # <<>> THEN Rep(0, 8) ELSE o.value)
    \o var_int(Len(o.scriptpubkey)) \o o.scriptpubkey

\* TxOutpoint.serialize_to_network
TxOutpoint_serialize_to_network(prevout) == Reverse(prevout.txid) \o prevout.out_idx

\* Transaction.serialize_input
serialize_input(txin, script) ==
    TxOutpoint_serialize_to_network(txin.prevout)
    \o var_int(Len(script)) \o script \o txin.nsequence

\* Transaction.deserialize: each attribute is assigned as soon as its part
\* of the stream has been read, so a raise leaves the earlier ones set
deserialize(t) ==
    IF t.ser = NONE \/ t.inputs # NONE THEN TRet("ok", NONE, t)
    ELSE Bind(t.ser[1], LAMBDA inp :
    Try(read_num(inp, 0, 4), TRet("", NONE, t), LAMBDA v :
    Bind([t EXCEPT !.version = v.v], LAMBDA t1 :
    Try(read_compact_size(inp, v.pos), TRet("", NONE, t1), LAMBDA c :
    Try(IF c.v = 0 THEN read_bytes(inp, c.pos, 1) ELSE Rd("ok", <<1>>, c.pos),
        TRet("", NONE, t1), LAMBDA m :
    IF m.v # <<1>> THEN TRet("ValueError", NONE, t1)
    ELSE
    Try(IF c.v = 0 THEN read_compact_size(inp, m.pos) ELSE c,
        TRet("", NONE, t1), LAMBDA n_vin :
    IF n_vin.v < 1 THEN TRet("SerializationError", NONE, t1)
    ELSE
    Try(parse_inputs(inp, n_vin.pos, n_vin.v, <<>>), TRet("", NONE, t1), LAMBDA ins :
    Bind([t1 EXCEPT !.inputs = Some(ins.v)], LAMBDA t2 :
    Try(read_compact_size(inp, ins.pos), TRet("", NONE, t2), LAMBDA n_vout :
    IF n_vout.v < 1 THEN TRet("SerializationError", NONE, t2)
    ELSE
    Try(parse_outputs(inp, n_vout.pos, n_vout.v, <<>>), TRet("", NONE, t2), LAMBDA outs :
    Bind(IF c.v = 0 THEN parse_witnesses(inp, outs.pos, ins.v, 1)
         ELSE Rd("ok", ins.v, outs.pos), LAMBDA w :
    Bind([t2 EXCEPT !.outputs = Some(outs.v), !.inputs = Some(w.v)], LAMBDA t4 :
    IF w.err # "ok" THEN TRet(w.err, NONE, t4)
    ELSE
    Try(read_num(inp, w.pos, 4), TRet("", NONE, t4), LAMBDA l :
    IF can_read_more(inp, l.pos)
    THEN TRet("SerializationError", NONE, [t4 EXCEPT !.locktime = l.v])
    ELSE TRet("ok", NONE, [t4 EXCEPT !.locktime = l.v]))))))))))))))

\* Transaction.invalidate_ser_cache
invalidate_ser_cache(t) == [t EXCEPT !.ser = NONE, !.cached_txid = NONE]

\* the scriptSig pass of serialize_to_network: [err, v, ins]
RECURSIVE ser_txins(_, _, _, _)
ser_txins(ins, k, include_sigs, acc) ==
    IF k > Len(ins) THEN [err |-> "ok", v |-> acc, ins |-> ins]
    ELSE Bind(IF include_sigs THEN input_script(ins[k]) ELSE RetE("ok", <<>>, ins[k]),
              LAMBDA s :
         IF s.err # "ok" THEN [err |-> s.err, v |-> acc, ins |-> [ins EXCEPT ![k] = s.x]]
         ELSE ser_txins([ins EXCEPT ![k] = s.x], k + 1, include_sigs,
                        acc \o serialize_input(ins[k], s.v)))

\* Transaction.is_segwit: any() stops at the first segwit input
RECURSIVE any_is_segwit(_, _)
any_is_segwit(ins, k) ==
    IF k > Len(ins) THEN [v |-> FALSE, ins |-> ins]
    ELSE Bind(is_segwit(ins[k]), LAMBDA r :
         IF r.v THEN [v |-> TRUE, ins |-> [ins EXCEPT ![k] = r.x]]
         ELSE any_is_segwit([ins EXCEPT ![k] = r.x], k + 1))

\* all(txin.is_segwit() ...) in txid(): stops at the first non-segwit input
RECURSIVE all_is_segwit(_, _)
all_is_segwit(ins, k) ==
    IF k > Len(ins) THEN [v |-> TRUE, ins |-> ins]
    ELSE Bind(is_segwit(ins[k]), LAMBDA r :
         IF ~r.v THEN [v |-> FALSE, ins |-> [ins EXCEPT ![k] = r.x]]
         ELSE all_is_segwit([ins EXCEPT ![k] = r.x], k + 1))

\* the witness pass of serialize_to_network
RECURSIVE ser_witnesses(_, _, _)
ser_witnesses(ins, k, acc) ==
    IF k > Len(ins) THEN [err |-> "ok", v |-> acc, ins |-> ins]
    ELSE Bind(serialize_witness(ins[k]), LAMBDA w :
         IF w.err # "ok" THEN [err |-> w.err, v |-> acc, ins |-> [ins EXCEPT ![k] = w.x]]
         ELSE ser_witnesses([ins EXCEPT ![k] = w.x], k + 1, acc \o w.v))

\* var_int(len(outputs)) + the outputs, each by TxOutput.serialize_to_network
ser_txouts(outs) ==
    var_int(Len(outs)) \o Concat([i \in 1..Len(outs) |-> TxOutput_serialize_to_network(outs[i])])

\* Transaction.serialize_to_network(include_sigs, force_legacy)
serialize_to_network(t, include_sigs, force_legacy) ==
    Bind(deserialize(t), LAMBDA d :
    IF d.err # "ok" THEN TRet(d.err, <<>>, d.t)
    ELSE IF d.t.inputs = NONE \/ d.t.outputs = NONE THEN TRet("TypeError", <<>>, d.t)
    ELSE Bind(ser_txins(d.t.inputs[1], 1, include_sigs, <<>>), LAMBDA ins :
    IF ins.err # "ok" THEN TRet(ins.err, <<>>, [d.t EXCEPT !.inputs = Some(ins.ins)])
    ELSE Bind(var_int(Len(d.t.inputs[1])) \o ins.v \o ser_txouts(d.t.outputs[1]), LAMBDA body :
    Bind(any_is_segwit(ins.ins, 1), LAMBDA sg :
    IF ~(include_sigs /\ ~force_legacy /\ sg.v)
    THEN TRet("ok", d.t.version \o body \o d.t.locktime,
              [d.t EXCEPT !.inputs = Some(sg.ins)])
    ELSE Bind(ser_witnesses(sg.ins, 1, <<>>), LAMBDA wit :
    IF wit.err # "ok" THEN TRet(wit.err, <<>>, [d.t EXCEPT !.inputs = Some(wit.ins)])
    ELSE TRet("ok", d.t.version \o <<0, 1>> \o body \o wit.v \o d.t.locktime,
              [d.t EXCEPT !.inputs = Some(wit.ins)]))))))

\* PartialTransaction.is_complete: all([...]) visits every input
RECURSIVE all_is_complete(_, _, _)
all_is_complete(ins, k, acc) ==
    IF k > Len(ins) THEN [v |-> acc, ins |-> ins]
    ELSE Bind(is_complete(ins[k]), LAMBDA r :
         all_is_complete([ins EXCEPT ![k] = r.x], k + 1, acc /\ r.v))

\* is_complete() of a Transaction (always True) or a PartialTransaction
tx_is_complete(t) ==
    IF ~t.partial THEN [v |-> TRUE, t |-> t]
    ELSE Bind(all_is_complete(t.inputs[1], 1, TRUE), LAMBDA r :
         [v |-> r.v, t |-> [t EXCEPT !.inputs = Some(r.ins)]])

\* Transaction.serialize: the cached serialization when there is one
Transaction_serialize(t) ==
    IF t.ser # NONE /\ t.ser # Some(<<>>) THEN TRet("ok", t.ser[1], t)
    ELSE Bind(serialize_to_network(t, TRUE, FALSE), LAMBDA r :
         IF r.err # "ok" THEN r
         ELSE TRet("ok", r.v, [r.t EXCEPT !.ser = Some(r.v)]))

\* Transaction.txid: v is NONE or Some(txid)
txid(t) ==
    IF t.cached_txid # NONE THEN TRet("ok", t.cached_txid, t)
    ELSE Bind(deserialize(t), LAMBDA d :
    IF d.err # "ok" THEN TRet(d.err, NONE, d.t)
    ELSE IF d.t.inputs = NONE THEN TRet("TypeError", NONE, d.t)
    ELSE Bind(all_is_segwit(d.t.inputs[1], 1), LAMBDA a :
    Bind(IF a.v THEN [v |-> TRUE, t |-> [d.t EXCEPT !.inputs = Some(a.ins)]]
         ELSE tx_is_complete([d.t EXCEPT !.inputs = Some(a.ins)]), LAMBDA c :
    IF ~a.v /\ ~c.v THEN TRet("ok", NONE, c.t)
    ELSE Bind(serialize_to_network(c.t, TRUE, TRUE), LAMBDA r :
    IF r.err = "UnknownTxinType" THEN TRet("ok", NONE, r.t)
    ELSE IF r.err # "ok" THEN TRet(r.err, NONE, r.t)
    ELSE TRet("ok", Some(Reverse(sha256d(r.v))),
              [r.t EXCEPT !.cached_txid = Some(Reverse(sha256d(r.v)))])))))

\* the version setter
set_version(t, value) == invalidate_ser_cache([t EXCEPT !.version = value])

\* the locktime setter
set_locktime(t, value) ==
    IF t.for_swap THEN t ELSE invalidate_ser_cache([t EXCEPT !.locktime = value])

-----------------------------------------------------------------------------
(* PartialTxInput and PartialTxOutput: consistency checks, the UTXO         *)
(* setters, combine.  Results are [err, x]: on a raise x is the input as    *)
(* the raise leaves it.                                                     *)

XRet(e, x) == [err |-> e, x |-> x]

\* TxOutput.__eq__: the script and the value, not the asset
TxOutput_eq(o1, o2) == o1.scriptpubkey = o2.scriptpubkey /\ o1.value = o2.value

\* ravencoin.p2wsh_nested_script: OP_0 push(sha256(witness_script))
p2wsh_nested_script(ws) == <<0, 32>> \o sha256(ws)

\* ravencoin.script_to_p2wsh
script_to_p2wsh(ws) == hash_to_segwit_addr(sha256(ws), 0)

\* the script checks of validate_data (redeem script, witness script)
validate_scripts(x) ==
    Bind(address(x), LAMBDA a :
    IF /\ Truthy(x.redeem_script) /\ a # NONE
       /\ a[1] # hash160_to_p2sh(hash_160(x.redeem_script[1]))
    THEN XRet("PSBTInputConsistencyFailure", x)
    ELSE IF /\ Truthy(x.witness_script) /\ Truthy(x.redeem_script)
            /\ x.redeem_script[1] # p2wsh_nested_script(x.witness_script[1])
    THEN XRet("PSBTInputConsistencyFailure", x)
    ELSE IF /\ Truthy(x.witness_script) /\ ~Truthy(x.redeem_script) /\ a # NONE
            /\ a[1] # script_to_p2wsh(x.witness_script[1])
    THEN XRet("PSBTInputConsistencyFailure", x)
    ELSE XRet("ok", x))

\* validate_data that does not compare the txid of the utxo with the prevout
validate_data_without_txid_check(x) ==
    IF x.utxo = NONE THEN validate_scripts(x)
    ELSE Bind(txid(x.utxo[1]), LAMBDA t :
         Bind([x EXCEPT !.utxo = Some(t.t)], LAMBDA x1 :
         IF t.err # "ok" THEN XRet(t.err, x1)
         ELSE IF x.witness_utxo = NONE THEN validate_scripts(x1)
         ELSE IF LEValue(x.prevout.out_idx) >= Len(t.t.outputs[1]) THEN XRet("IndexError", x1)
         ELSE IF ~TxOutput_eq(t.t.outputs[1][LEValue(x.prevout.out_idx) + 1], x.witness_utxo[1])
         THEN XRet("PSBTInputConsistencyFailure", x1)
         ELSE validate_scripts(x1)))

\* PartialTxInput.validate_data; utxo.txid() fills the txid cache of the utxo
validate_data(x) ==
    IF x.utxo = NONE THEN validate_scripts(x)
    ELSE Bind(txid(x.utxo[1]), LAMBDA t :
         Bind([x EXCEPT !.utxo = Some(t.t)], LAMBDA x1 :
         IF t.err # "ok" THEN XRet(t.err, x1)
         ELSE IF t.v # Some(x.prevout.txid) THEN XRet("PSBTInputConsistencyFailure", x1)
         ELSE IF x.witness_utxo = NONE THEN validate_scripts(x1)
         ELSE IF LEValue(x.prevout.out_idx) >= Len(t.t.outputs[1]) THEN XRet("IndexError", x1)
         ELSE IF ~TxOutput_eq(t.t.outputs[1][LEValue(x.prevout.out_idx) + 1], x.witness_utxo[1])
         THEN XRet("PSBTInputConsistencyFailure", x1)
         ELSE validate_scripts(x1)))

\* ensure_there_is_only_one_utxo: "self.witness_utxo = None" goes through the
\* witness_utxo setter, which validates again
ensure_there_is_only_one_utxo(x) ==
    IF x.utxo # NONE /\ x.witness_utxo # NONE
    THEN validate_data([x EXCEPT !.witness_utxo = NONE])
    ELSE XRet("ok", x)

\* tx_from_any(str(tx)) for a Transaction: its serialization, parsed again
tx_from_any(t) ==
    Bind(Transaction_serialize(t), LAMBDA r :
    IF r.err # "ok" THEN TRet(r.err, NONE, t)
    ELSE Bind(deserialize(Transaction(Some(r.v))), LAMBDA d :
         IF d.err # "ok" THEN TRet("SerializationError", NONE, t)
         ELSE TRet("ok", NONE, d.t)))

\* the utxo setter: value is NONE or Some(Transaction)
set_utxo(x, value) ==
    IF value = NONE THEN XRet("ok", x)
    ELSE Bind(tx_from_any(value[1]), LAMBDA r :
         IF r.err # "ok" THEN XRet(r.err, x)
         ELSE Bind(validate_data([x EXCEPT !.utxo = Some(r.t)]), LAMBDA v :
              IF v.err # "ok" THEN v ELSE ensure_there_is_only_one_utxo(v.x)))

\* the witness_utxo setter: value is NONE or Some(TxOutput)
set_witness_utxo(x, value) ==
    Bind(validate_data([x EXCEPT !.witness_utxo = value]), LAMBDA v :
    IF v.err # "ok" THEN v ELSE ensure_there_is_only_one_utxo(v.x))

\* dict.update: the other's entries win
Update(self, oth) == oth @@ self

\* PartialTxInput.convert_utxo_to_witness_utxo: writes _witness_utxo and
\* _utxo themselves, not through the setters
convert_utxo_to_witness_utxo(x) ==
    IF x.utxo # NONE
    THEN [x EXCEPT !.witness_utxo =
                       Some(x.utxo[1].outputs[1][LEValue(x.prevout.out_idx) + 1]),
                   !.utxo = NONE]
    ELSE x

\* combine_fields with self.part_sigs = other.part_sigs in place of the update
combine_fields_replacing_part_sigs(x, o) ==
    [x EXCEPT !.part_sigs = o.part_sigs,
              !.sighash = IF o.sighash # NONE THEN o.sighash ELSE @,
              !.bip32_paths = Update(@, o.bip32_paths),
              !.redeem_script = IF o.redeem_script # NONE THEN o.redeem_script ELSE @,
              !.witness_script = IF o.witness_script # NONE THEN o.witness_script ELSE @,
              !.unknown = Update(@, o.unknown)]

\* the plain assignments of combine_with_other_txin, after the two UTXO setters
combine_fields(x, o) ==
    [x EXCEPT !.part_sigs = Update(@, o.part_sigs),
              !.sighash = IF o.sighash # NONE THEN o.sighash ELSE @,
              !.bip32_paths = Update(@, o.bip32_paths),
              !.redeem_script = IF o.redeem_script # NONE THEN o.redeem_script ELSE @,
              !.witness_script = IF o.witness_script # NONE THEN o.witness_script ELSE @,
              !.unknown = Update(@, o.unknown)]

\* PartialTxInput.combine_with_other_txin up to its last statement
combine_txin_before_finalize(x, o) ==
    IF x.prevout # o.prevout THEN XRet("AssertionError", x)
    ELSE
    Bind([x EXCEPT !.script_sig = IF o.script_sig # NONE THEN o.script_sig ELSE @,
                   !.witness = IF o.witness # NONE THEN o.witness ELSE @], LAMBDA x1 :
    Bind(IF o.partial /\ o.witness_utxo # NONE THEN set_witness_utxo(x1, o.witness_utxo)
         ELSE XRet("ok", x1), LAMBDA w :
    IF w.err # "ok" THEN w
    ELSE
    Bind(IF o.partial /\ o.utxo # NONE THEN set_utxo(w.x, o.utxo) ELSE XRet("ok", w.x),
         LAMBDA u :
    IF u.err # "ok" THEN u
    ELSE ensure_there_is_only_one_utxo(IF o.partial THEN combine_fields(u.x, o) ELSE u.x))))

\* combine_with_other_txin without its closing self.finalize()
combine_with_other_txin_no_finalize(x, o) ==
    combine_txin_before_finalize(x, o)

\* PartialTxInput.combine_with_other_txin
combine_with_other_txin(x, o) ==
    Bind(combine_txin_before_finalize(x, o), LAMBDA e :
    IF e.err # "ok" THEN e ELSE finalize(e.x))

\* PartialTxOutput.combine_with_other_txout
combine_with_other_txout(out, o) ==
    IF out.scriptpubkey # o.scriptpubkey THEN XRet("AssertionError", out)
    ELSE IF ~o.partial THEN XRet("ok", out)
    ELSE XRet("ok",
              [out EXCEPT !.redeem_script = IF o.redeem_script # NONE THEN o.redeem_script ELSE @,
                          !.witness_script = IF o.witness_script # NONE THEN o.witness_script ELSE @,
                          !.bip32_paths = Update(@, o.bip32_paths),
                          !.unknown = Update(@, o.unknown)])

-----------------------------------------------------------------------------
(* The raw transactions a Transaction object is constructed from.           *)

\* a push of a 3-byte signature whose last byte is SIGHASH.ALL
SigPush == <<3, 48, 7, 1>>

P2PKHScript(h) == <<118, 169, 20>> \o Rep(h, 20) \o <<136, 172>>

\* a transfer-asset script: p2pkh, OP_RVN_ASSET, push("rvnt" name amount), OP_DROP
AssetScript(h, name, amt) ==
    P2PKHScript(h) \o <<OP_RVN_ASSET, 13 + Len(name)>> \o RVN \o <<116, Len(name)>>
    \o name \o amt \o <<117>>

WireInput(i, sig) ==
    <<i>> \o Rep(7, 31) \o <<i - 1, 0, 0, 0>>
    \o (IF sig THEN <<Len(SigPush)>> \o SigPush ELSE <<0>>) \o <<254, 255, 255, 255>>

WireOutput(kind) ==
    IF kind = "plain" THEN <<9, 0, 0, 0, 0, 0, 0, 0, 25>> \o P2PKHScript(5)
    ELSE LET name == IF kind = "asset_noname" THEN <<>> ELSE <<65, 66, 67>>
             val == IF kind = "asset_zero" THEN Rep(0, 8) ELSE <<9, 0, 0, 0, 0, 0, 0, 0>>
             scr == AssetScript(5, name, <<3, 0, 0, 0, 0, 0, 0, 0>>)
         IN  val \o <<Len(scr)>> \o scr

WireWitness(i, items) == IF items /\ i = 1 THEN <<1, 2, 170, 187>> ELSE <<0>>

\* the shapes of raw transaction explored
RawShape(nin, seg, cnt, out, tail) ==
    [nin |-> nin, seg |-> seg, cnt |-> cnt, out |-> out, tail |-> tail]

RawShapes ==
    {RawShape(n, s, "canon", "plain", "exact") :
        n \in {1, 2}, s \in {"legacy", "segwit_empty", "segwit_items"}}
    \cup {RawShape(1, "legacy", "wide", "plain", "exact")}
    \cup {RawShape(1, "legacy", "canon", o, "exact") :
             o \in {"asset_zero", "asset_value", "asset_noname"}}
    \cup {RawShape(1, s, "canon", "plain", t) :
             s \in {"legacy", "segwit_items"}, t \in {"junk", "short", "no_outputs"}}

BuildTx(c) ==
    <<2, 0, 0, 0>>
    \o (IF c.seg = "legacy" THEN <<>> ELSE <<0, 1>>)
    \o (IF c.cnt = "canon" THEN var_int(c.nin) ELSE <<253, c.nin, 0>>)
    \o Concat([i \in 1..c.nin |-> WireInput(i, i = 1)])
    \o (IF c.tail = "no_outputs" THEN <<0>> ELSE <<1>> \o WireOutput(c.out))
    \o (IF c.seg = "legacy" THEN <<>>
        ELSE Concat([i \in 1..c.nin |-> WireWitness(i, c.seg = "segwit_items")]))
    \o (IF c.tail = "short" THEN <<0, 0>> ELSE <<0, 0, 0, 0>>)
    \o (IF c.tail = "junk" THEN <<0>> ELSE <<>>)

RawTxs == {BuildTx(c) : c \in RawShapes}

\* the values the mutating calls write
NewScriptSig == <<1, 81>>

NewWitness == <<1, 1, 9>>

NewNSequence == <<253, 255, 255, 255>>

NewVersion == <<1, 0, 0, 0>>

NewLocktime == <<5, 0, 0, 0>>

-----------------------------------------------------------------------------
(* SpecTx: one Transaction object built from raw bytes, and the calls made  *)
(* on it.  hist remembers the last call, the last value txid() returned     *)
(* and the object's fields at that moment.                                  *)

Fields(t) == [inputs |-> t.inputs, outputs |-> t.outputs,
              version |-> t.version, locktime |-> t.locktime]

TxInit ==
    /\ raw \in RawTxs
    /\ tx = Transaction(Some(raw))
    /\ other = NONE
    /\ err = "ok"
    /\ ret = NONE
    /\ ops = 0
    /\ hist = [last |-> "init", id |-> NONE, snap |-> NONE]

Called(name) == hist' = [hist EXCEPT !.last = name]

Deserialize ==
    /\ Bind(deserialize(tx), LAMBDA r : tx' = r.t /\ err' = r.err)
    /\ ret' = NONE
    /\ Called("deserialize")
    /\ UNCHANGED <<raw, ops, other>>

SerializeToNetwork ==
    /\ Bind(serialize_to_network(tx, TRUE, FALSE), LAMBDA r :
        /\ tx' = r.t /\ err' = r.err
        /\ ret' = IF r.err = "ok" THEN Some(r.v) ELSE NONE)
    /\ Called("serialize_to_network")
    /\ UNCHANGED <<raw, ops, other>>

Serialize ==
    /\ Bind(Transaction_serialize(tx), LAMBDA r :
        /\ tx' = r.t /\ err' = r.err
        /\ ret' = IF r.err = "ok" THEN Some(r.v) ELSE NONE)
    /\ Called("serialize")
    /\ UNCHANGED <<raw, ops, other>>

Txid ==
    /\ Bind(txid(tx), LAMBDA r :
        /\ tx' = r.t /\ err' = r.err
        /\ ret' = IF r.err = "ok" THEN r.v ELSE NONE
        /\ hist' = IF r.err = "ok"
                   THEN [last |-> "txid", id |-> Some(r.v), snap |-> Some(Fields(r.t))]
                   ELSE [hist EXCEPT !.last = "txid"])
    /\ UNCHANGED <<raw, ops, other>>

SetVersion ==
    /\ ops < MaxOps
    /\ tx' = set_version(tx, NewVersion) /\ err' = "ok" /\ ret' = NONE
    /\ Called("set_version") /\ ops' = ops + 1 /\ UNCHANGED <<raw, other>>

SetLocktime ==
    /\ ops < MaxOps
    /\ tx' = set_locktime(tx, NewLocktime) /\ err' = "ok" /\ ret' = NONE
    /\ Called("set_locktime") /\ ops' = ops + 1 /\ UNCHANGED <<raw, other>>

\* tx.inputs()[i].<attr> = value: inputs() deserializes when _inputs is None
WriteInput(name, i, W(_)) ==
    /\ ops < MaxOps
    /\ Bind(IF tx.inputs = NONE THEN deserialize(tx) ELSE TRet("ok", NONE, tx), LAMBDA d :
        /\ d.t.inputs # NONE => i <= Len(d.t.inputs[1])
        /\ err' = IF d.err # "ok" THEN d.err
                  ELSE IF d.t.inputs = NONE THEN "TypeError" ELSE "ok"
        /\ tx' = IF d.err = "ok" /\ d.t.inputs # NONE
                 THEN [d.t EXCEPT !.inputs = Some([@[1] EXCEPT ![i] = W(@)])]
                 ELSE d.t)
    /\ ret' = NONE /\ Called(name) /\ ops' = ops + 1 /\ UNCHANGED <<raw, other>>

SetScriptSig ==
    \E i \in 1..2 :
        LET W(x) == [x EXCEPT !.script_sig = Some(NewScriptSig)]
        IN  WriteInput("set_script_sig", i, W)

SetWitness ==
    \E i \in 1..2 :
        LET W(x) == [x EXCEPT !.witness = Some(NewWitness)]
        IN  WriteInput("set_witness", i, W)

SetNSequence ==
    \E i \in 1..2 :
        LET W(x) == [x EXCEPT !.nsequence = NewNSequence]
        IN  WriteInput("set_nsequence", i, W)

TxNext ==
    \/ Deserialize
    \/ SerializeToNetwork
    \/ Serialize
    \/ Txid
    \/ SetVersion
    \/ SetLocktime
    \/ SetScriptSig
    \/ SetWitness
    \/ SetNSequence

SpecTx == TxInit /\ [][TxNext]_vars

-----------------------------------------------------------------------------
(* Claims checked under SpecTx. *)

\* C1: transaction round trip.  Whenever serialize_to_network() is called on
\* a Transaction that still holds the bytes it was constructed from and has
\* not been parsed yet, and the call (which parses them) raises nothing, the
\* bytes returned are exactly the bytes the object was constructed from.
C1_RoundTrip ==
    [][(/\ tx.inputs = NONE /\ tx.ser = Some(raw)
        /\ hist'.last = "serialize_to_network" /\ err' = "ok")
       => ret' = Some(raw)]_vars

\* the fields of a transaction with every input's witness blanked
StripWitness(f) ==
    [f EXCEPT !.inputs = IF @ = NONE THEN NONE
                         ELSE Some([i \in 1..Len(@[1]) |-> [@[1][i] EXCEPT !.witness = NONE]])]

\* C8: txid stability.  Between two successful txid() calls on the object,
\* if only witness data was changed the second call returns what the first
\* returned, and if a script-sig or any other non-witness field was changed
\* the second call returns something else.
C8_TxidStability ==
    [][(hist'.last = "txid" /\ err' = "ok" /\ hist.id # NONE)
       => /\ (/\ hist.snap # hist'.snap
              /\ StripWitness(hist.snap[1]) = StripWitness(hist'.snap[1]))
             => hist'.id = hist.id
          /\ StripWitness(hist.snap[1]) # StripWitness(hist'.snap[1])
             => hist'.id # hist.id]_vars

Mutators == {"set_version", "set_locktime", "set_script_sig", "set_witness", "set_nsequence"}

\* a present cache equals the value a recomputation yields
CachesCoherent(t) ==
    /\ (t.ser # NONE /\ serialize_to_network(t, TRUE, FALSE).err = "ok")
       => serialize_to_network(t, TRUE, FALSE).v = t.ser[1]
    /\ t.cached_txid # NONE
       => txid([t EXCEPT !.cached_txid = NONE]).v = t.cached_txid

\* C9: cache coherence.  After every mutating call that returned normally
\* (version or locktime setter, a write of an input's script-sig, witness or
\* nSequence), each cache is either absent or equal to the recomputed value.
C9_CacheCoherence ==
    [][(hist'.last \in Mutators /\ err' = "ok") => CachesCoherent(tx')]_vars


-----------------------------------------------------------------------------
(* The PSBT stream: io.BytesIO reads, compact sizes, key-value records.     *)

\* fd.read(n) of io.BytesIO: what is left when fewer than n bytes remain
fd_read(inp, pos, n) ==
    Rd("ok", Slice(inp, pos, pos + n), Min(Len(inp), pos + n))

\* deser_compact_size: v is NONE at the end of the stream
deser_compact_size(inp, pos) ==
    IF pos >= Len(inp) THEN Rd("ok", NONE, pos)
    ELSE Bind(inp[pos + 1], LAMBDA nit :
         IF nit < 253 THEN Rd("ok", Some(nit), pos + 1)
         ELSE Bind(fd_read(inp, pos + 1, IF nit = 253 THEN 2 ELSE IF nit = 254 THEN 4 ELSE 8),
                   LAMBDA r :
              IF Len(r.v) # (IF nit = 253 THEN 2 ELSE IF nit = 254 THEN 4 ELSE 8)
              THEN Rd("struct.error", NONE, r.pos)
              ELSE Rd("ok", Some(LEValue(r.v)), r.pos)))

\* a key-value record; kt is the key type, key the key data
KV(kt, key, val) == [kt |-> kt, key |-> key, val |-> val]

\* PSBTSection.get_keytype_and_key_from_fullkey: [err, kt, key]
get_keytype_and_key_from_fullkey(full_key) ==
    Bind(deser_compact_size(full_key, 0), LAMBDA t :
    IF t.err # "ok" THEN [err |-> t.err, kt |-> 0, key |-> <<>>]
    ELSE IF t.v = NONE THEN [err |-> "UnexpectedEndOfStream", kt |-> 0, key |-> <<>>]
    ELSE [err |-> "ok", kt |-> t.v[1], key |-> Slice(full_key, t.pos, Len(full_key))])

\* PSBTSection.get_fullkey_from_keytype_and_key
get_fullkey_from_keytype_and_key(kt, key) == var_int(kt) \o key

\* PSBTSection.get_next_kv_from_fd: v is a record, or NONE for StopIteration
get_next_kv_from_fd(inp, pos) ==
    Try(deser_compact_size(inp, pos), Rd("", NONE, pos), LAMBDA ks :
    IF ks.v = Some(0) THEN Rd("ok", NONE, ks.pos)
    ELSE IF ks.v = NONE THEN Rd("UnexpectedEndOfStream", NONE, ks.pos)
    ELSE Bind(fd_read(inp, ks.pos, ks.v[1]), LAMBDA fk :
    Try(get_keytype_and_key_from_fullkey(fk.v), Rd("", NONE, fk.pos), LAMBDA k :
    Try(deser_compact_size(inp, fk.pos), Rd("", NONE, fk.pos), LAMBDA vs :
    IF vs.v = NONE THEN Rd("UnexpectedEndOfStream", NONE, vs.pos)
    ELSE Bind(fd_read(inp, vs.pos, vs.v[1]), LAMBDA val :
         Rd("ok", Some(KV(k.kt, k.key, val.v)), val.pos))))))

\* the writer of create_psbt_writer: one record
wr(kt, val, key) ==
    var_int(Len(get_fullkey_from_keytype_and_key(kt, key)))
    \o get_fullkey_from_keytype_and_key(kt, key) \o var_int(Len(val)) \o val

\* the keys of a dict in sorted() order
RECURSIVE SortedSet(_)
SortedSet(S) ==
    IF S = {} THEN <<>>
    ELSE Bind(CHOOSE m \in S : \A o \in S : ~BytesLess(o, m), LAMBDA m :
         <<m>> \o SortedSet(S \ {m}))

sorted(m) == SortedSet(DOMAIN m)

\* chunks(bs, 4)
RECURSIVE chunks4(_)
chunks4(bs) == IF bs = <<>> THEN <<>> ELSE <<Slice(bs, 0, 4)>> \o chunks4(Slice(bs, 4, Len(bs)))

\* unpack_bip32_root_fingerprint_and_int_path: [err, xfp, path]; a path
\* element is kept as the 4 bytes int.from_bytes reads
unpack_bip32_root_fingerprint_and_int_path(path) ==
    IF Len(path) % 4 # 0 THEN [err |-> "Exception", xfp |-> <<>>, path |-> <<>>]
    ELSE [err |-> "ok", xfp |-> Slice(path, 0, 4), path |-> chunks4(Slice(path, 4, Len(path)))]

\* pack_bip32_root_fingerprint_and_int_path: [err, v]
pack_bip32_root_fingerprint_and_int_path(xfp, path) ==
    IF Len(xfp) # 4 THEN [err |-> "Exception", v |-> <<>>]
    ELSE [err |-> "ok", v |-> xfp \o Concat(path)]

-----------------------------------------------------------------------------
(* PSBT sections of an input and of an output.                              *)

\* TxOutput.from_network_bytes: [err, v]
TxOutput_from_network_bytes(bs) ==
    Bind(parse_output(bs, 0), LAMBDA r :
    IF r.err # "ok" THEN [err |-> r.err, v |-> NONE]
    ELSE IF can_read_more(bs, r.pos) THEN [err |-> "SerializationError", v |-> NONE]
    ELSE [err |-> "ok", v |-> Some(r.v)])

\* struct.pack('<I', n)
pack_I(n) == <<n % 256, (n \div 256) % 256, (n \div 65536) % 256, n \div 16777216>>

\* "if key: raise SerializationError" after the field was stored
KeyMustBeEmpty(key, x) ==
    IF key # <<>> THEN XRet("SerializationError", x) ELSE XRet("ok", x)

\* a record for a dict field keyed by public key
parse_keyed(x, key, present) ==
    IF present THEN XRet("SerializationError", x)
    ELSE IF Len(key) \notin {33, 65} THEN XRet("SerializationError", x)
    ELSE XRet("ok", x)

\* the else branch: a record of an unknown type
parse_unknown(x, kv) ==
    Bind(get_fullkey_from_keytype_and_key(kv.kt, kv.key), LAMBDA full_key :
    IF full_key \in DOMAIN x.unknown THEN XRet("SerializationError", x)
    ELSE XRet("ok", [x EXCEPT !.unknown = (full_key :> kv.val) @@ @]))

\* PartialTxInput.parse_psbt_section_kv, the two UTXO records
parse_in_utxo(x, kv) ==
    IF kv.kt = 0
    THEN IF x.utxo # NONE THEN XRet("SerializationError", x)
         ELSE Bind(set_utxo(x, Some(Transaction(Some(kv.val)))), LAMBDA u :
              IF u.err # "ok" THEN u ELSE KeyMustBeEmpty(kv.key, u.x))
    ELSE IF x.witness_utxo # NONE THEN XRet("SerializationError", x)
         ELSE Bind(TxOutput_from_network_bytes(kv.val), LAMBDA o :
              IF o.err # "ok" THEN XRet(o.err, x)
              ELSE Bind(set_witness_utxo(x, o.v), LAMBDA w :
                   IF w.err # "ok" THEN w ELSE KeyMustBeEmpty(kv.key, w.x)))

\* PartialTxInput.parse_psbt_section_kv, the two dict records
parse_in_keyed(x, kv) ==
    IF kv.kt = 2
    THEN Bind(parse_keyed(x, kv.key, kv.key \in DOMAIN x.part_sigs), LAMBDA c :
         IF c.err # "ok" THEN c
         ELSE XRet("ok", [x EXCEPT !.part_sigs = (kv.key :> kv.val) @@ @]))
    ELSE Bind(parse_keyed(x, kv.key, kv.key \in DOMAIN x.bip32_paths), LAMBDA c :
         IF c.err # "ok" THEN c
         ELSE Bind(unpack_bip32_root_fingerprint_and_int_path(kv.val), LAMBDA p :
              IF p.err # "ok" THEN XRet(p.err, x)
              ELSE XRet("ok", [x EXCEPT !.bip32_paths =
                                   (kv.key :> [xfp |-> p.xfp, path |-> p.path]) @@ @])))

\* PartialTxInput.parse_psbt_section_kv
PartialTxInput_parse_psbt_section_kv(x, kv) ==
    IF kv.kt \in {0, 1} THEN parse_in_utxo(x, kv)
    ELSE IF kv.kt \in {2, 6} THEN parse_in_keyed(x, kv)
    ELSE IF kv.kt = 3
    THEN IF x.sighash # NONE \/ Len(kv.val) # 4 THEN XRet("SerializationError", x)
         ELSE KeyMustBeEmpty(kv.key, [x EXCEPT !.sighash = Some(LEValue(kv.val))])
    ELSE IF kv.kt = 4
    THEN IF x.redeem_script # NONE THEN XRet("SerializationError", x)
         ELSE KeyMustBeEmpty(kv.key, [x EXCEPT !.redeem_script = Some(kv.val)])
    ELSE IF kv.kt = 5
    THEN IF x.witness_script # NONE THEN XRet("SerializationError", x)
         ELSE KeyMustBeEmpty(kv.key, [x EXCEPT !.witness_script = Some(kv.val)])
    ELSE IF kv.kt = 7
    THEN IF x.script_sig # NONE THEN XRet("SerializationError", x)
         ELSE KeyMustBeEmpty(kv.key, [x EXCEPT !.script_sig = Some(kv.val)])
    ELSE IF kv.kt = 8
    THEN IF x.witness # NONE THEN XRet("SerializationError", x)
         ELSE KeyMustBeEmpty(kv.key, [x EXCEPT !.witness = Some(kv.val)])
    ELSE parse_unknown(x, kv)

\* PartialTxOutput.parse_psbt_section_kv
PartialTxOutput_parse_psbt_section_kv(o, kv) ==
    IF kv.kt = 0
    THEN IF o.redeem_script # NONE THEN XRet("SerializationError", o)
         ELSE KeyMustBeEmpty(kv.key, [o EXCEPT !.redeem_script = Some(kv.val)])
    ELSE IF kv.kt = 1
    THEN IF o.witness_script # NONE THEN XRet("SerializationError", o)
         ELSE KeyMustBeEmpty(kv.key, [o EXCEPT !.witness_script = Some(kv.val)])
    ELSE IF kv.kt = 2
    THEN Bind(parse_keyed(o, kv.key, kv.key \in DOMAIN o.bip32_paths), LAMBDA c :
         IF c.err # "ok" THEN c
         ELSE Bind(unpack_bip32_root_fingerprint_and_int_path(kv.val), LAMBDA p :
              IF p.err # "ok" THEN XRet(p.err, o)
              ELSE XRet("ok", [o EXCEPT !.bip32_paths =
                                   (kv.key :> [xfp |-> p.xfp, path |-> p.path]) @@ @])))
    ELSE parse_unknown(o, kv)

\* PSBTSection._populate_psbt_fields_from_fd: [err, x, pos]; is_input selects
\* the subclass whose parse_psbt_section_kv runs
RECURSIVE populate_psbt_fields_from_fd(_, _, _, _)
populate_psbt_fields_from_fd(x, is_input, inp, pos) ==
    Bind(get_next_kv_from_fd(inp, pos), LAMBDA r :
    IF r.err # "ok" THEN [err |-> r.err, x |-> x, pos |-> r.pos]
    ELSE IF r.v = NONE THEN [err |-> "ok", x |-> x, pos |-> r.pos]
    ELSE Bind(IF is_input THEN PartialTxInput_parse_psbt_section_kv(x, r.v[1])
              ELSE PartialTxOutput_parse_psbt_section_kv(x, r.v[1]), LAMBDA p :
         IF p.err # "ok" THEN [err |-> p.err, x |-> p.x, pos |-> r.pos]
         ELSE populate_psbt_fields_from_fd(p.x, is_input, inp, r.pos)))

\* "for k in sorted(m): wr(kt, val, k)" for a dict of byte strings
wr_dict(kt, m) ==
    Bind(sorted(m), LAMBDA ks : Concat([i \in 1..Len(ks) |-> wr(kt, m[ks[i]], ks[i])]))

\* the BIP32_DERIVATION records: [err, v]; the first path that cannot be
\* packed raises
wr_bip32_paths(kt, m) ==
    IF \E k \in DOMAIN m : pack_bip32_root_fingerprint_and_int_path(m[k].xfp, m[k].path).err # "ok"
    THEN [err |-> "Exception", v |-> <<>>]
    ELSE Bind(sorted(m), LAMBDA ks :
         [err |-> "ok",
          v |-> Concat([i \in 1..Len(ks) |->
                   wr(kt, pack_bip32_root_fingerprint_and_int_path(m[ks[i]].xfp,
                                                                   m[ks[i]].path).v, ks[i])])])

\* the records of the unknown-keys map: [err, v]
wr_unknown(m) ==
    IF \E fk \in DOMAIN m : get_keytype_and_key_from_fullkey(fk).err # "ok"
    THEN [err |-> "UnexpectedEndOfStream", v |-> <<>>]
    ELSE Bind(sorted(m), LAMBDA ks :
         [err |-> "ok",
          v |-> Concat([i \in 1..Len(ks) |->
                   wr(get_keytype_and_key_from_fullkey(ks[i]).kt, m[ks[i]],
                      get_keytype_and_key_from_fullkey(ks[i]).key)])])

WrOpt(kt, opt) == IF opt # NONE THEN wr(kt, opt[1], <<>>) ELSE <<>>

\* the records an input writes before its BIP32 derivations: [err, v, x]
ser_in_head(x) ==
    Bind(IF x.utxo = NONE THEN TRet("ok", <<>>, NONE)
         ELSE serialize_to_network(x.utxo[1], TRUE, FALSE), LAMBDA u :
    IF u.err # "ok" THEN RetE(u.err, <<>>, x)
    ELSE RetE("ok",
              (IF x.witness_utxo # NONE
               THEN wr(1, TxOutput_serialize_to_network(x.witness_utxo[1]), <<>>) ELSE <<>>)
              \o (IF x.utxo # NONE THEN wr(0, u.v, <<>>) ELSE <<>>)
              \o wr_dict(2, x.part_sigs)
              \o (IF x.sighash # NONE THEN wr(3, pack_I(x.sighash[1]), <<>>) ELSE <<>>)
              \o WrOpt(4, x.redeem_script) \o WrOpt(5, x.witness_script),
              IF x.utxo = NONE THEN x ELSE [x EXCEPT !.utxo = Some(u.t)]))

\* PartialTxInput.serialize_psbt_section_kvs: [err, v, x]
PartialTxInput_serialize_psbt_section_kvs(x0) ==
    Bind(ensure_there_is_only_one_utxo(x0), LAMBDA e :
    IF e.err # "ok" THEN RetE(e.err, <<>>, e.x)
    ELSE Bind(ser_in_head(e.x), LAMBDA h :
    IF h.err # "ok" THEN h
    ELSE Bind(wr_bip32_paths(6, h.x.bip32_paths), LAMBDA b :
    IF b.err # "ok" THEN RetE(b.err, <<>>, h.x)
    ELSE Bind(wr_unknown(h.x.unknown), LAMBDA k :
    IF k.err # "ok" THEN RetE(k.err, <<>>, h.x)
    ELSE RetE("ok", h.v \o b.v \o WrOpt(7, h.x.script_sig) \o WrOpt(8, h.x.witness) \o k.v,
              h.x)))))

\* PartialTxOutput.serialize_psbt_section_kvs: [err, v]
PartialTxOutput_serialize_psbt_section_kvs(o) ==
    Bind(wr_bip32_paths(2, o.bip32_paths), LAMBDA b :
    IF b.err # "ok" THEN [err |-> b.err, v |-> <<>>]
    ELSE Bind(wr_unknown(o.unknown), LAMBDA k :
    IF k.err # "ok" THEN [err |-> k.err, v |-> <<>>]
    ELSE [err |-> "ok",
          v |-> WrOpt(0, o.redeem_script) \o WrOpt(1, o.witness_script) \o b.v \o k.v]))

-----------------------------------------------------------------------------
(* PartialTransaction: from_tx, from_raw_psbt, _serialize_psbt.            *)

\* PartialTxInput.from_txin(txin, strip_witness)
from_txin(txin, strip) ==
    [TxInput(txin.prevout, IF strip THEN NONE ELSE txin.script_sig, txin.nsequence,
             IF strip THEN NONE ELSE txin.witness, txin.sighash)
     EXCEPT !.partial = TRUE]

\* PartialTxOutput.from_txout
from_txout(txout) ==
    [TxOutput(txout.scriptpubkey, txout.value, txout.asset) EXCEPT !.partial = TRUE]

\* PartialTransaction.__init__
PartialTransaction ==
    [Transaction(NONE) EXCEPT !.partial = TRUE, !.inputs = Some(<<>>), !.outputs = Some(<<>>)]

\* PartialTransaction.from_tx(tx, strip) of a deserialized tx
from_tx(t, strip) ==
    [PartialTransaction EXCEPT
        !.inputs = Some([i \in 1..Len(t.inputs[1]) |-> from_txin(t.inputs[1][i], strip)]),
        !.outputs = Some([i \in 1..Len(t.outputs[1]) |-> from_txout(t.outputs[1][i])]),
        !.version = t.version, !.locktime = t.locktime, !.for_swap = t.for_swap]

\* b'psbt\xff'
PSBT_MAGIC == <<112, 115, 98, 116, 255>>

\* the UNSIGNED_TX record of the first pass: [err, v] with v the new tx
parse_unsigned_tx(kv, txopt) ==
    IF txopt # NONE \/ kv.key # <<>> THEN [err |-> "SerializationError", v |-> txopt]
    ELSE Bind(deserialize(Transaction(Some(kv.val))), LAMBDA d :
         IF d.err # "ok" THEN [err |-> d.err, v |-> txopt]
         ELSE IF d.t.inputs = NONE THEN [err |-> "TypeError", v |-> txopt]
         ELSE IF \E i \in 1..Len(d.t.inputs[1]) :
                    Truthy(d.t.inputs[1][i].script_sig) \/ Truthy(d.t.inputs[1][i].witness)
         THEN [err |-> "SerializationError", v |-> txopt]
         ELSE [err |-> "ok", v |-> Some(from_tx(d.t, TRUE))])

\* the first pass over the global section: [err, v] with v NONE or Some(tx)
RECURSIVE psbt_first_pass(_, _, _)
psbt_first_pass(inp, pos, txopt) ==
    Bind(get_next_kv_from_fd(inp, pos), LAMBDA r :
    IF r.err # "ok" THEN [err |-> r.err, v |-> txopt]
    ELSE IF r.v = NONE THEN [err |-> "ok", v |-> txopt]
    ELSE IF r.v[1].kt # 0 THEN psbt_first_pass(inp, r.pos, txopt)
    ELSE Bind(parse_unsigned_tx(r.v[1], txopt), LAMBDA u :
         IF u.err # "ok" THEN u ELSE psbt_first_pass(inp, r.pos, u.v)))

\* bip32.BIP32Node.from_bytes, as far as from_raw_psbt uses it: 78 bytes,
\* the depth at offset 4 and the child number (big-endian) at offsets 9..12;
\* to_bytes gives the 78 bytes back
BIP32Node_from_bytes(key) ==
    IF Len(key) # 78 THEN [err |-> "Exception", depth |-> 0, child_number |-> <<>>]
    ELSE [err |-> "ok", depth |-> key[5], child_number |-> Slice(key, 9, 13)]

\* the XPUB record of the global section: [err, x] with x the tx
parse_global_xpub(t, kv) ==
    Bind(BIP32Node_from_bytes(kv.key), LAMBDA node :
    IF node.err # "ok" THEN XRet(node.err, t)
    ELSE IF kv.key \in DOMAIN t.xpubs THEN XRet("SerializationError", t)
    ELSE Bind(unpack_bip32_root_fingerprint_and_int_path(kv.val), LAMBDA p :
    IF p.err # "ok" THEN XRet(p.err, t)
    ELSE IF node.depth # Len(p.path) THEN XRet("SerializationError", t)
    ELSE IF ~(\/ node.depth = 0 /\ node.child_number = <<0, 0, 0, 0>>
              \/ node.depth # 0 /\ Reverse(node.child_number) = p.path[Len(p.path)])
    THEN XRet("SerializationError", t)
    ELSE XRet("ok", [t EXCEPT !.xpubs = (kv.key :> [xfp |-> p.xfp, path |-> p.path]) @@ @])))

\* the VERSION record: int.from_bytes(val, 'little') must be 0
parse_global_version(t, kv) ==
    IF Len(kv.val) > 4 THEN XRet("SerializationError", t)
    ELSE IF \E i \in 1..Len(kv.val) : kv.val[i] # 0 THEN XRet("SerializationError", t)
    ELSE KeyMustBeEmpty(kv.key, t)

\* the second pass over the global section: [err, x, pos]
RECURSIVE psbt_global_section(_, _, _)
psbt_global_section(t, inp, pos) ==
    Bind(get_next_kv_from_fd(inp, pos), LAMBDA r :
    IF r.err # "ok" THEN [err |-> r.err, x |-> t, pos |-> r.pos]
    ELSE IF r.v = NONE THEN [err |-> "ok", x |-> t, pos |-> r.pos]
    ELSE Bind(IF r.v[1].kt = 0 THEN XRet("ok", t)
              ELSE IF r.v[1].kt = 1 THEN parse_global_xpub(t, r.v[1])
              ELSE IF r.v[1].kt = 251 THEN parse_global_version(t, r.v[1])
              ELSE parse_unknown(t, r.v[1]), LAMBDA p :
         IF p.err # "ok" THEN [err |-> p.err, x |-> p.x, pos |-> r.pos]
         ELSE psbt_global_section(p.x, inp, r.pos)))

\* "for txin in tx.inputs(): txin._populate_psbt_fields_from_fd(fd)", and the
\* same for outputs: [err, x, pos] with x the list
RECURSIVE psbt_sections(_, _, _, _, _)
psbt_sections(xs, k, is_input, inp, pos) ==
    IF k > Len(xs) THEN [err |-> "ok", x |-> xs, pos |-> pos]
    ELSE Bind(populate_psbt_fields_from_fd(xs[k], is_input, inp, pos), LAMBDA r :
         IF r.err # "ok" THEN [err |-> r.err, x |-> [xs EXCEPT ![k] = r.x], pos |-> r.pos]
         ELSE psbt_sections([xs EXCEPT ![k] = r.x], k + 1, is_input, inp, r.pos))

\* "for txin in tx.inputs(): txin.validate_data()": [err, x] with x the list
RECURSIVE validate_all(_, _)
validate_all(xs, k) ==
    IF k > Len(xs) THEN XRet("ok", xs)
    ELSE Bind(validate_data(xs[k]), LAMBDA v :
         IF v.err # "ok" THEN XRet(v.err, [xs EXCEPT ![k] = v.x])
         ELSE validate_all([xs EXCEPT ![k] = v.x], k + 1))

\* PartialTransaction.from_raw_psbt for raw bytes: [err, x]; x is the tx
\* built so far, NONE before the unsigned tx is found
from_raw_psbt(bs) ==
    IF Slice(bs, 0, 5) # PSBT_MAGIC THEN XRet("BadHeaderMagic", NONE)
    ELSE Bind(Slice(bs, 5, Len(bs)), LAMBDA inp :
    Bind(psbt_first_pass(inp, 0, NONE), LAMBDA f :
    IF f.err # "ok" THEN XRet(f.err, NONE)
    ELSE IF f.v = NONE THEN XRet("SerializationError", NONE)
    ELSE Bind(psbt_global_section(f.v[1], inp, 0), LAMBDA g :
    IF g.err # "ok" THEN XRet(g.err, NONE)
    ELSE Bind(psbt_sections(g.x.inputs[1], 1, TRUE, inp, g.pos), LAMBDA i :
    IF i.err # "ok" THEN XRet(i.err, NONE)
    ELSE Bind(psbt_sections(g.x.outputs[1], 1, FALSE, inp, i.pos), LAMBDA o :
    IF o.err # "ok" THEN XRet(o.err, NONE)
    ELSE IF fd_read(inp, o.pos, 1).v # <<>> THEN XRet("SerializationError", NONE)
    ELSE Bind(validate_all(i.x, 1), LAMBDA v :
    IF v.err # "ok" THEN XRet(v.err, NONE)
    ELSE XRet("ok", Some([g.x EXCEPT !.inputs = Some(v.x), !.outputs = Some(o.x)]))))))))

\* the sections of a list of inputs: [err, v, ins]
RECURSIVE ser_in_sections(_, _, _)
ser_in_sections(ins, k, acc) ==
    IF k > Len(ins) THEN [err |-> "ok", v |-> acc, ins |-> ins]
    ELSE Bind(PartialTxInput_serialize_psbt_section_kvs(ins[k]), LAMBDA r :
         IF r.err # "ok" THEN [err |-> r.err, v |-> acc, ins |-> [ins EXCEPT ![k] = r.x]]
         ELSE ser_in_sections([ins EXCEPT ![k] = r.x], k + 1, acc \o r.v \o <<0>>))

\* the sections of a list of outputs: [err, v]
RECURSIVE ser_out_sections(_, _, _)
ser_out_sections(outs, k, acc) ==
    IF k > Len(outs) THEN [err |-> "ok", v |-> acc]
    ELSE Bind(PartialTxOutput_serialize_psbt_section_kvs(outs[k]), LAMBDA r :
         IF r.err # "ok" THEN [err |-> r.err, v |-> acc]
         ELSE ser_out_sections(outs, k + 1, acc \o r.v \o <<0>>))

\* the global section written by _serialize_psbt: [err, v, t].  At most one
\* xpub is carried by a PSBT of the model, so the order of sorted() over
\* BIP32Node tuples does not come into play.
ser_global_section(t) ==
    Bind(serialize_to_network(t, FALSE, FALSE), LAMBDA u :
    IF u.err # "ok" THEN u
    ELSE Bind(wr_bip32_paths(1, u.t.xpubs), LAMBDA xp :
    IF xp.err # "ok" THEN TRet(xp.err, <<>>, u.t)
    ELSE Bind(wr_unknown(u.t.unknown), LAMBDA k :
    IF k.err # "ok" THEN TRet(k.err, <<>>, u.t)
    ELSE TRet("ok", PSBT_MAGIC \o wr(0, u.v, <<>>) \o xp.v \o k.v \o <<0>>, u.t))))

\* PartialTransaction._serialize_psbt: [err, v, t]
serialize_psbt(t) ==
    Bind(ser_global_section(t), LAMBDA g :
    IF g.err # "ok" THEN g
    ELSE Bind(ser_in_sections(g.t.inputs[1], 1, <<>>), LAMBDA i :
    IF i.err # "ok" THEN TRet(i.err, <<>>, [g.t EXCEPT !.inputs = Some(i.ins)])
    ELSE Bind(ser_out_sections(g.t.outputs[1], 1, <<>>), LAMBDA o :
    IF o.err # "ok" THEN TRet(o.err, <<>>, [g.t EXCEPT !.inputs = Some(i.ins)])
    ELSE TRet("ok", g.v \o i.v \o o.v, [g.t EXCEPT !.inputs = Some(i.ins)]))))

\* "for txin in self.inputs(): txin.finalize()": [err, x] with x the list
RECURSIVE finalize_all(_, _)
finalize_all(xs, k) ==
    IF k > Len(xs) THEN XRet("ok", xs)
    ELSE Bind(finalize(xs[k]), LAMBDA f :
         IF f.err # "ok" THEN XRet(f.err, [xs EXCEPT ![k] = f.x])
         ELSE finalize_all([xs EXCEPT ![k] = f.x], k + 1))

\* PartialTransaction.finalize_psbt: [err, v, t]
finalize_psbt(t) ==
    Bind(finalize_all(t.inputs[1], 1), LAMBDA f :
    TRet(f.err, NONE, [t EXCEPT !.inputs = Some(f.x)]))

\* PartialTransaction.serialize, the complete case included: [err, v, t];
\* v is Some(network bytes), or NONE where the base64 text is returned
PartialTransaction_serialize(t) ==
    Bind(finalize_psbt(t), LAMBDA f :
    IF f.err # "ok" THEN f
    ELSE Bind(tx_is_complete(f.t), LAMBDA c :
    IF ~c.v THEN TRet("ok", NONE, c.t)
    ELSE Bind(Transaction_serialize(c.t), LAMBDA r :
         IF r.err # "ok" THEN TRet(r.err, NONE, r.t) ELSE TRet("ok", Some(r.v), r.t))))

\* PartialTransaction.serialize_as_bytes(force_psbt): [err, v, t]
serialize_as_bytes(t, force_psbt) ==
    Bind(finalize_psbt(t), LAMBDA f :
    IF f.err # "ok" THEN TRet(f.err, <<>>, f.t)
    ELSE Bind(IF force_psbt THEN [v |-> FALSE, t |-> f.t] ELSE tx_is_complete(f.t), LAMBDA c :
    IF force_psbt \/ ~c.v THEN serialize_psbt(c.t)
    ELSE Bind(PartialTransaction_serialize(c.t), LAMBDA r :
         IF r.err # "ok" THEN TRet(r.err, <<>>, r.t)
         ELSE IF r.v = NONE THEN TRet("ValueError", <<>>, r.t)
         ELSE TRet("ok", r.v[1], r.t))))

-----------------------------------------------------------------------------
(* PartialTransaction: combine, join, BIP69_sort, remove_signatures.  A     *)
(* call that takes a second transaction returns [err, t, o]: the exception, *)
(* self and the other transaction after the call.                           *)

PRet(e, t, o) == [err |-> e, t |-> t, o |-> o]

\* "for txin, other_txin in zip(...): txin.combine_with_other_txin(other_txin)"
RECURSIVE combine_inputs(_, _, _)
combine_inputs(xs, os, k) ==
    IF k > Min(Len(xs), Len(os)) THEN XRet("ok", xs)
    ELSE Bind(combine_with_other_txin(xs[k], os[k]), LAMBDA c :
         IF c.err # "ok" THEN XRet(c.err, [xs EXCEPT ![k] = c.x])
         ELSE combine_inputs([xs EXCEPT ![k] = c.x], os, k + 1))

\* the same loop over the outputs
RECURSIVE combine_outputs(_, _, _)
combine_outputs(xs, os, k) ==
    IF k > Min(Len(xs), Len(os)) THEN XRet("ok", xs)
    ELSE Bind(combine_with_other_txout(xs[k], os[k]), LAMBDA c :
         IF c.err # "ok" THEN XRet(c.err, [xs EXCEPT ![k] = c.x])
         ELSE combine_outputs([xs EXCEPT ![k] = c.x], os, k + 1))

\* the global section of combine and join
update_globals(t, o) ==
    [t EXCEPT !.xpubs = Update(@, o.xpubs), !.unknown = Update(@, o.unknown)]

\* PartialTransaction.combine_with_other_psbt
combine_with_other_psbt(t, o) ==
    Bind(serialize_to_network(t, FALSE, FALSE), LAMBDA s1 :
    IF s1.err # "ok" THEN PRet(s1.err, s1.t, o)
    ELSE Bind(serialize_to_network(o, FALSE, FALSE), LAMBDA s2 :
    IF s2.err # "ok" THEN PRet(s2.err, s1.t, s2.t)
    ELSE IF s1.v # s2.v THEN PRet("Exception", s1.t, s2.t)
    ELSE Bind(IF s2.t.partial THEN update_globals(s1.t, s2.t) ELSE s1.t, LAMBDA g :
    Bind(combine_inputs(g.inputs[1], s2.t.inputs[1], 1), LAMBDA i :
    IF i.err # "ok" THEN PRet(i.err, [g EXCEPT !.inputs = Some(i.x)], s2.t)
    ELSE Bind(combine_outputs(g.outputs[1], s2.t.outputs[1], 1), LAMBDA u :
    IF u.err # "ok"
    THEN PRet(u.err, [g EXCEPT !.inputs = Some(i.x), !.outputs = Some(u.x)], s2.t)
    ELSE PRet("ok",
              invalidate_ser_cache([g EXCEPT !.inputs = Some(i.x), !.outputs = Some(u.x)]),
              s2.t))))))

\* the sort key of an input, (prevout.txid, prevout.out_idx), compared
InputLess(a, b) ==
    IF a.prevout.txid # b.prevout.txid THEN BytesLess(a.prevout.txid, b.prevout.txid)
    ELSE LELess(a.prevout.out_idx, b.prevout.out_idx)

\* the sort key of an output, (value, scriptpubkey), compared
OutputLess(a, b) ==
    IF a.value # b.value THEN LELess(a.value, b.value)
    ELSE BytesLess(a.scriptpubkey, b.scriptpubkey)

\* list.sort(key=...): a stable sort.  Rank is the position an element gets
Rank(xs, i, Less(_, _)) ==
    1 + Cardinality({j \in 1..Len(xs) :
                        Less(xs[j], xs[i]) \/ (~Less(xs[i], xs[j]) /\ j < i)})

StableSort(xs, Less(_, _)) ==
    [p \in 1..Len(xs) |-> xs[CHOOSE i \in 1..Len(xs) : Rank(xs, i, Less) = p]]

\* constants.net.BURN_ADDRESSES: one burn address stands for them
BURN_ADDRESSES == {hash160_to_p2pkh(Rep(66, 20))}

\* TxOutput.address
TxOutput_address(o) == get_address_from_output_script(o.scriptpubkey)

\* the four outputs the asset ordering of BIP69_sort picks
Picks(burn, parent, owner, create) ==
    [burn |-> burn, parent |-> parent, owner |-> owner, create |-> create]

\* one output visited by the loop "for o in iter(self._outputs)"; asset[-1]
\* is '!' (33) for an ownership asset
pick_output(p, o) ==
    IF TxOutput_address(o) # NONE /\ TxOutput_address(o)[1] \in BURN_ADDRESSES
    THEN [p EXCEPT !.burn = Some(o)]
    ELSE IF o.asset = <<>> THEN p
    ELSE IF o.asset[Len(o.asset)] = 33
    THEN IF p.create # NONE
         THEN IF SubSeq(o.asset, 1, Len(o.asset) - 1) = p.create[1].asset
              THEN [p EXCEPT !.owner = Some(o),
                             !.parent = IF p.parent = NONE THEN p.owner ELSE @]
              ELSE [p EXCEPT !.parent = Some(o)]
         ELSE IF p.owner # NONE THEN [p EXCEPT !.parent = Some(o)]
         ELSE [p EXCEPT !.owner = Some(o)]
    ELSE IF p.owner # NONE
            /\ SubSeq(p.owner[1].asset, 1, Len(p.owner[1].asset) - 1) # o.asset
    THEN [p EXCEPT !.create = Some(o), !.parent = p.owner, !.owner = p.parent]
    ELSE [p EXCEPT !.create = Some(o)]

RECURSIVE pick_outputs(_, _, _)
pick_outputs(p, outs, k) ==
    IF k > Len(outs) THEN p ELSE pick_outputs(pick_output(p, outs[k]), outs, k + 1)

\* "o not in (burn_vout, parent_owner_vout, asset_owner_vout, asset_create_vout)":
\* membership by TxOutput.__eq__
NotPicked(o, p) ==
    \A q \in {p.burn, p.parent, p.owner, p.create} : q = NONE \/ ~TxOutput_eq(o, q[1])

RECURSIVE Filter(_, _, _)
Filter(outs, p, k) ==
    IF k > Len(outs) THEN <<>>
    ELSE (IF NotPicked(outs[k], p) THEN <<outs[k]>> ELSE <<>>) \o Filter(outs, p, k + 1)

\* the asset ordering applied to the sorted outputs
asset_order(outs) ==
    Bind(pick_outputs(Picks(NONE, NONE, NONE, NONE), outs, 1), LAMBDA p :
    IF p.burn = NONE \/ p.create = NONE THEN outs
    ELSE p.burn \o Filter(outs, p, 1) \o p.parent \o p.owner \o p.create)

\* the two sorts of BIP69_sort without the asset ordering that follows them
sort_without_asset_order(t, inputs, outputs) ==
    invalidate_ser_cache(
        [t EXCEPT !.inputs = IF inputs THEN Some(StableSort(@[1], InputLess)) ELSE @,
                  !.outputs = IF outputs THEN Some(StableSort(@[1], OutputLess)) ELSE @])

\* BIP69_sort past its for_swap test: both sorts and the asset ordering
sort_inputs_and_outputs(t, inputs, outputs) ==
    invalidate_ser_cache(
        [t EXCEPT !.inputs = IF inputs THEN Some(StableSort(@[1], InputLess)) ELSE @,
                  !.outputs = IF outputs
                              THEN Some(asset_order(StableSort(@[1], OutputLess)))
                              ELSE @])

\* PartialTransaction.BIP69_sort(inputs, outputs)
BIP69_sort(t, inputs, outputs) ==
    IF t.for_swap THEN t ELSE sort_inputs_and_outputs(t, inputs, outputs)

\* PartialTransaction.add_inputs
add_inputs(t, inputs) ==
    invalidate_ser_cache(BIP69_sort([t EXCEPT !.inputs = Some(@[1] \o inputs)], TRUE, FALSE))

\* PartialTransaction.add_outputs
add_outputs(t, outputs) ==
    invalidate_ser_cache(BIP69_sort([t EXCEPT !.outputs = Some(@[1] \o outputs)], FALSE, TRUE))

\* the loop of remove_signatures over one input
clear_signatures(x) ==
    [x EXCEPT !.part_sigs = EmptyMap, !.script_sig = NONE, !.witness = NONE]

\* PartialTransaction.remove_signatures: [err, v, t]
remove_signatures(t) ==
    Bind(tx_is_complete([t EXCEPT !.inputs =
                            Some([i \in 1..Len(@[1]) |-> clear_signatures(@[1][i])])]),
         LAMBDA c :
    IF c.v THEN TRet("AssertionError", NONE, c.t)
    ELSE TRet("ok", NONE, invalidate_ser_cache(c.t)))

\* the prevouts of a list of inputs; TxOutpoint.to_str tells prevouts apart
\* as the pair (txid, out_idx) does
Prevouts(xs) == {xs[i].prevout : i \in 1..Len(xs)}

HasDuplicatePrevouts(xs) == Cardinality(Prevouts(xs)) < Len(xs)

\* PartialTransaction.join_with_other_psbt.  The inputs of the other
\* transaction become elements of self's list as well: what
\* remove_signatures does to them shows in the other transaction.
join_with_other_psbt(t, o) ==
    IF ~o.partial THEN PRet("Exception", t, o)
    ELSE IF HasDuplicatePrevouts(t.inputs[1] \o o.inputs[1]) THEN PRet("Exception", t, o)
    ELSE Bind(add_outputs(add_inputs(update_globals(t, o), o.inputs[1]), o.outputs[1]),
              LAMBDA j :
         Bind(remove_signatures(j), LAMBDA r :
              PRet(r.err, r.t,
                   [o EXCEPT !.inputs =
                       Some([i \in 1..Len(@[1]) |->
                               CHOOSE x \in {r.t.inputs[1][k] : k \in 1..Len(r.t.inputs[1])} :
                                   x.prevout = @[1][i].prevout])])))

\* PartialTransaction.add_signature_to_txin(txin_idx, signing_pubkey, sig)
add_signature_to_txin(t, txin_idx, signing_pubkey, sig) ==
    invalidate_ser_cache(
        [t EXCEPT !.inputs =
            Some([@[1] EXCEPT ![txin_idx] =
                    [@ EXCEPT !.part_sigs = (signing_pubkey :> sig) @@ @,
                              !.script_sig = NONE, !.witness = NONE]])])

\* PartialTransaction.from_io(inputs, outputs, BIP69_sort=..., for_swap=...)
from_io(inputs, outputs, sort, for_swap) ==
    Bind([PartialTransaction EXCEPT !.inputs = Some(inputs), !.outputs = Some(outputs),
                                    !.for_swap = for_swap], LAMBDA t :
    IF sort THEN BIP69_sort(t, TRUE, TRUE) ELSE t)

-----------------------------------------------------------------------------
(* The raw PSBTs a PartialTransaction is parsed from.                       *)

\* the previous transaction the first input of every PSBT spends
PrevTx == BuildTx(RawShape(1, "legacy", "canon", "plain", "exact"))

\* the same transaction with its input count written as fd 01 00
PrevTxWide == BuildTx(RawShape(1, "legacy", "wide", "plain", "exact"))

\* a transaction with another txid
OtherPrevTx == BuildTx(RawShape(2, "legacy", "canon", "plain", "exact"))

PubKey(i) == <<2>> \o Rep(i, 32)

Sig(i) == <<48, i, 1>>

\* a p2wpkh program, used as a redeem script
RedeemScript == <<0, 20>> \o Rep(1, 20)

P2SHScript(script) == <<169, 20>> \o hash_160(script) \o <<135>>

\* a record as it is on the wire
Rec(full_key, val) == var_int(Len(full_key)) \o full_key \o var_int(Len(val)) \o val

\* the unsigned transaction of a PSBT with nin inputs
UnsignedTx(nin, signed) ==
    <<2, 0, 0, 0>> \o <<nin>>
    \o sha256d(PrevTx) \o <<0, 0, 0, 0>>
    \o (IF signed THEN <<Len(SigPush)>> \o SigPush ELSE <<0>>) \o <<254, 255, 255, 255>>
    \o (IF nin = 2 THEN WireInput(2, FALSE) ELSE <<>>)
    \o <<1>> \o WireOutput("plain") \o <<0, 0, 0, 0>>

\* a serialized extended public key of depth 1 and child number 1
XPubKey == <<4, 136, 178, 30, 1>> \o Rep(0, 4) \o <<0, 0, 0, 1>> \o Rep(3, 32) \o PubKey(4)

UnknownA == Rec(<<170, 1>>, <<222, 173, 190, 239>>)

UnknownB == Rec(<<171>>, <<1>>)

GlobalSection(g, nin) ==
    IF g = "no_tx" THEN UnknownA
    ELSE IF g = "unknown_first" THEN UnknownA \o Rec(<<0>>, UnsignedTx(nin, FALSE))
    ELSE IF g = "wide_size"
    THEN <<253, 1, 0, 0>> \o var_int(Len(UnsignedTx(nin, FALSE))) \o UnsignedTx(nin, FALSE)
    ELSE Rec(<<0>>, UnsignedTx(nin, g = "signed_tx"))
         \o (IF g = "unknown" THEN UnknownA
             ELSE IF g = "unknown_unsorted" THEN UnknownB \o UnknownA
             ELSE IF g = "dup_unknown" THEN UnknownA \o UnknownA
             ELSE IF g = "wide_type" THEN Rec(<<253, 170, 0, 1>>, <<5>>)
             ELSE IF g = "version" THEN Rec(<<251>>, <<0, 0, 0, 0>>)
             ELSE IF g = "xpub" THEN Rec(<<1>> \o XPubKey, <<9, 9, 9, 9, 1, 0, 0, 0>>)
             ELSE <<>>)

GlobalKinds ==
    {"plain", "no_tx", "unknown_first", "wide_size", "signed_tx", "unknown",
     "unknown_unsorted", "dup_unknown", "wide_type", "version", "xpub"}

InputSection(i) ==
    IF i = "utxo" THEN Rec(<<0>>, PrevTx)
    ELSE IF i = "utxo_wide" THEN Rec(<<0>>, PrevTxWide)
    ELSE IF i = "bad_utxo" THEN Rec(<<0>>, OtherPrevTx)
    ELSE IF i = "witness_utxo" THEN Rec(<<1>>, WireOutput("plain"))
    ELSE IF i = "both_utxos" THEN Rec(<<1>>, WireOutput("plain")) \o Rec(<<0>>, PrevTx)
    ELSE IF i = "part_sig" THEN Rec(<<2>> \o PubKey(1), Sig(1))
    ELSE IF i = "part_sigs_unsorted"
    THEN Rec(<<2>> \o PubKey(2), Sig(2)) \o Rec(<<2>> \o PubKey(1), Sig(1))
    ELSE IF i = "part_sig_key32" THEN Rec(<<2>> \o Rep(1, 32), Sig(1))
    ELSE IF i = "sighash" THEN Rec(<<3>>, <<1, 0, 0, 0>>)
    ELSE IF i = "sighash_none" THEN Rec(<<3>>, <<2, 0, 0, 0>>)
    ELSE IF i = "part_sig_other_key" THEN Rec(<<2>> \o PubKey(2), Sig(2))
    ELSE IF i = "part_sig_other_sig" THEN Rec(<<2>> \o PubKey(1), Sig(9))
    ELSE IF i = "sighash_then_sig"
    THEN Rec(<<3>>, <<1, 0, 0, 0>>) \o Rec(<<2>> \o PubKey(1), Sig(1))
    ELSE IF i = "final_sig" THEN Rec(<<7>>, SigPush)
    ELSE IF i = "final_both" THEN Rec(<<7>>, SigPush) \o Rec(<<8>>, <<0>>)
    ELSE IF i = "final_witness" THEN Rec(<<8>>, <<1, 2, 170, 187>>)
    ELSE IF i = "bip32" THEN Rec(<<6>> \o PubKey(1), <<9, 9, 9, 9, 1, 0, 0, 128>>)
    ELSE IF i = "bip32_empty" THEN Rec(<<6>> \o PubKey(1), <<>>)
    ELSE IF i = "bip32_odd" THEN Rec(<<6>> \o PubKey(1), <<9, 9, 9>>)
    ELSE IF i = "unknown" THEN UnknownA
    ELSE IF i = "unknown_other" THEN Rec(<<170, 1>>, <<190, 239>>)
    ELSE IF i = "redeem_only" THEN Rec(<<4>>, RedeemScript)
    ELSE IF i = "redeem_bad" THEN Rec(<<0>>, PrevTx) \o Rec(<<4>>, RedeemScript)
    ELSE IF i = "redeem_ok"
    THEN Rec(<<1>>, <<9, 0, 0, 0, 0, 0, 0, 0, 23>> \o P2SHScript(RedeemScript))
         \o Rec(<<4>>, RedeemScript)
    ELSE <<>>

InputKinds ==
    {"empty", "utxo", "utxo_wide", "bad_utxo", "witness_utxo", "both_utxos", "part_sig",
     "sighash_none", "part_sig_other_key", "part_sig_other_sig",
     "part_sigs_unsorted", "part_sig_key32", "sighash", "sighash_then_sig", "final_sig",
     "final_both", "final_witness", "bip32", "bip32_empty", "bip32_odd", "unknown",
     "unknown_other", "redeem_only", "redeem_bad", "redeem_ok"}

OutputSection(o) ==
    IF o = "redeem" THEN Rec(<<0>>, RedeemScript)
    ELSE IF o = "bip32" THEN Rec(<<2>> \o PubKey(1), <<9, 9, 9, 9>>)
    ELSE IF o = "unknown" THEN UnknownA
    ELSE IF o = "redeem_key" THEN Rec(<<0, 1>>, RedeemScript)
    ELSE <<>>

OutputKinds == {"empty", "redeem", "bip32", "unknown", "redeem_key"}

PsbtShape(nin, g, i, o, tail) == [nin |-> nin, g |-> g, i |-> i, o |-> o, tail |-> tail]

\* the shapes of raw PSBT explored
PsbtShapes ==
    {PsbtShape(1, g, i, "empty", "exact") : g \in GlobalKinds, i \in {"empty", "part_sig"}}
    \cup {PsbtShape(n, "plain", i, "empty", "exact") : n \in {1, 2}, i \in InputKinds}
    \cup {PsbtShape(1, "unknown", "unknown", o, "exact") : o \in OutputKinds}
    \cup {PsbtShape(1, "plain", "part_sig", "empty", t) :
             t \in {"junk", "no_output_section", "short", "bad_magic"}}

BuildPsbt(c) ==
    (IF c.tail = "bad_magic" THEN <<112, 115, 98, 116, 0>> ELSE PSBT_MAGIC)
    \o GlobalSection(c.g, c.nin) \o <<0>>
    \o InputSection(c.i) \o <<0>>
    \o (IF c.nin = 2 THEN <<0>> ELSE <<>>)
    \o (IF c.tail = "no_output_section" THEN <<>>
        ELSE IF c.tail = "short" THEN <<1, 0, 9, 1>>
        ELSE OutputSection(c.o) \o <<0>>)
    \o (IF c.tail = "junk" THEN <<0>> ELSE <<>>)

RawPsbts == {BuildPsbt(c) : c \in PsbtShapes}

-----------------------------------------------------------------------------
(* Specification SpecPsbt: a PSBT is parsed from raw bytes, finalized,      *)
(* serialized, and the bytes returned are parsed again.  tx is NONE until   *)
(* from_raw_psbt has returned an object.                                    *)

PsbtInit ==
    /\ raw \in RawPsbts
    /\ tx = NONE
    /\ other = NONE
    /\ err = "ok"
    /\ ret = NONE
    /\ ops = 0
    /\ hist = [last |-> "init", prev |-> "init", force |-> FALSE]

PsbtCalled(name, force) == [last |-> name, prev |-> hist.last, force |-> force]

\* tx = PartialTransaction.from_raw_psbt(raw)
FromRawPsbt ==
    /\ hist.last = "init"
    /\ Bind(from_raw_psbt(raw), LAMBDA p :
           /\ tx' = p.x
           /\ err' = p.err)
    /\ hist' = PsbtCalled("from_raw_psbt", FALSE)
    /\ UNCHANGED <<raw, ret, ops, other>>

\* ret = tx.serialize_as_bytes(force_psbt=force)
SerializeAsBytes ==
    /\ tx # NONE
    /\ ops < MaxOps
    /\ \E force \in BOOLEAN :
          /\ Bind(serialize_as_bytes(tx[1], force), LAMBDA r :
                 /\ tx' = Some(r.t)
                 /\ err' = r.err
                 /\ ret' = IF r.err = "ok" THEN Some(r.v) ELSE NONE)
          /\ hist' = PsbtCalled("serialize_as_bytes", force)
    /\ ops' = ops + 1
    /\ UNCHANGED <<raw, other>>

\* tx.finalize_psbt()
FinalizePsbt ==
    /\ tx # NONE
    /\ ops < MaxOps
    /\ Bind(finalize_psbt(tx[1]), LAMBDA r :
           /\ tx' = Some(r.t)
           /\ err' = r.err)
    /\ hist' = PsbtCalled("finalize_psbt", FALSE)
    /\ ops' = ops + 1
    /\ UNCHANGED <<raw, ret, other>>

\* tx = PartialTransaction.from_raw_psbt(ret): the PSBT bytes just returned
\* are parsed into a new object
FromReturnedPsbt ==
    /\ hist.last = "serialize_as_bytes"
    /\ err = "ok"
    /\ ret # NONE
    /\ Slice(ret[1], 0, 5) = PSBT_MAGIC
    /\ raw' = ret[1]
    /\ Bind(from_raw_psbt(ret[1]), LAMBDA p :
           /\ tx' = p.x
           /\ err' = p.err)
    /\ hist' = PsbtCalled("from_raw_psbt", FALSE)
    /\ UNCHANGED <<ret, ops, other>>

PsbtNext == FromRawPsbt \/ SerializeAsBytes \/ FinalizePsbt \/ FromReturnedPsbt

SpecPsbt == PsbtInit /\ [][PsbtNext]_vars

-----------------------------------------------------------------------------
(* Claims on SpecPsbt.                                                      *)

\* the records of one section, up to its separator: [err, v, pos]
RECURSIVE section_records(_, _, _)
section_records(inp, pos, acc) ==
    Bind(get_next_kv_from_fd(inp, pos), LAMBDA r :
    IF r.err # "ok" \/ r.v = NONE THEN [err |-> r.err, v |-> acc, pos |-> r.pos]
    ELSE section_records(inp, r.pos, Append(acc, r.v[1])))

\* the sections of a PSBT, each the sequence of its records
RECURSIVE psbt_records(_, _, _)
psbt_records(inp, pos, acc) ==
    IF pos >= Len(inp) THEN acc
    ELSE Bind(section_records(inp, pos, <<>>), LAMBDA r :
         IF r.err # "ok" THEN acc ELSE psbt_records(inp, r.pos, Append(acc, r.v)))

\* the known key types of section number k of a PSBT with nin inputs
KnownTypes(k, nin) ==
    IF k = 1 THEN {0, 1, 251} ELSE IF k <= 1 + nin THEN 0..8 ELSE 0..2

\* every record of an unknown type of P is a record of the same section of S
UnknownPreserved(P, S, nin) ==
    Bind(psbt_records(Slice(P, 5, Len(P)), 0, <<>>), LAMBDA a :
    Bind(psbt_records(Slice(S, 5, Len(S)), 0, <<>>), LAMBDA b :
        /\ Len(a) = Len(b)
        /\ \A k \in 1..Len(a) : \A i \in 1..Len(a[k]) :
              a[k][i].kt \notin KnownTypes(k, nin)
                  => \E j \in 1..Len(b[k]) : b[k][j] = a[k][i]))

\* C2: for every byte string P that from_raw_psbt accepts,
\* from_raw_psbt(P).serialize_as_bytes(force_psbt=True) returns exactly P,
\* and every record of an unknown type of the global, input and output
\* sections of P is emitted again with the same key and the same value.
C2_PsbtRoundTrip ==
    (hist.last = "serialize_as_bytes" /\ hist.prev = "from_raw_psbt" /\ hist.force)
        => /\ err = "ok"
           /\ ret = Some(raw)
           /\ UnknownPreserved(raw, ret[1], Len(tx[1].inputs[1]))

-----------------------------------------------------------------------------
(* Specification SpecCombine: two PSBTs over the same unsigned transaction, *)
(* tx and other, each parsed from raw bytes.  The wallet writes the script  *)
(* type, the public keys and the threshold of an input; signatures are      *)
(* added; tx is combined with other or with a copy of itself, finalized,    *)
(* serialized.                                                              *)

\* the PSBTs combined
CombineShapes ==
    {PsbtShape(1, "plain", i, "empty", "exact") :
        i \in {"empty", "utxo", "witness_utxo", "part_sig", "part_sig_other_key",
               "part_sig_other_sig", "sighash", "sighash_none", "final_sig", "final_both",
               "bip32", "unknown_other", "redeem_only"}}
    \cup {PsbtShape(1, "unknown", "unknown", "redeem", "exact"),
          PsbtShape(1, "xpub", "part_sig", "empty", "exact")}

CombinePsbts == {from_raw_psbt(BuildPsbt(c)).x : c \in CombineShapes}

\* what the wallet knows of the first input: script type, pubkeys, num_sig
InputInfo(st, pks, n) == [script_type |-> st, pubkeys |-> pks, num_sig |-> n]

InputInfos ==
    {InputInfo("p2pkh", <<PubKey(1)>>, 0),
     InputInfo("p2wpkh", <<PubKey(1)>>, 0),
     InputInfo("p2wpkh-p2sh", <<PubKey(1)>>, 0),
     InputInfo("p2sh", <<PubKey(1), PubKey(2)>>, 1)}

\* txin.script_type = ...; txin.pubkeys = ...; txin.num_sig = ...
set_input_info(t, i, info) ==
    [t EXCEPT !.inputs = Some([@[1] EXCEPT ![i] =
        [@ EXCEPT !.script_type = info.script_type, !.pubkeys = info.pubkeys,
                  !.num_sig = info.num_sig]])]

\* copy.deepcopy of a transaction
deepcopy(t) == t

CombineInit ==
    /\ raw = <<>>
    /\ tx \in CombinePsbts
    /\ other \in CombinePsbts
    /\ err = "ok"
    /\ ret = NONE
    /\ ops = 0
    /\ hist = [last |-> "init", pre |-> NONE, preo |-> NONE, force |-> FALSE]

Did(name, force) == [last |-> name, pre |-> tx, preo |-> other, force |-> force]

\* the wallet fills in the first input of tx, or of both transactions
SetInputInfo ==
    /\ ops < MaxOps
    /\ \E info \in InputInfos, both \in BOOLEAN :
          /\ tx' = Some(set_input_info(tx[1], 1, info))
          /\ other' = IF both THEN Some(set_input_info(other[1], 1, info)) ELSE other
    /\ err' = "ok"
    /\ hist' = Did("set_input_info", FALSE)
    /\ ops' = ops + 1
    /\ UNCHANGED <<raw, ret>>

\* tx.add_signature_to_txin(txin_idx=0, signing_pubkey=..., sig=...)
AddSignature ==
    /\ ops < MaxOps
    /\ \E k \in {1, 2} : tx' = Some(add_signature_to_txin(tx[1], 1, PubKey(k), Sig(k)))
    /\ err' = "ok"
    /\ hist' = Did("add_signature_to_txin", FALSE)
    /\ ops' = ops + 1
    /\ UNCHANGED <<raw, ret, other>>

\* tx.combine_with_other_psbt(other)
CombineWithOther ==
    /\ ops < MaxOps
    /\ Bind(combine_with_other_psbt(tx[1], other[1]), LAMBDA r :
           /\ tx' = Some(r.t)
           /\ other' = Some(r.o)
           /\ err' = r.err)
    /\ hist' = Did("combine_with_other_psbt", FALSE)
    /\ ops' = ops + 1
    /\ UNCHANGED <<raw, ret>>

\* tx.combine_with_other_psbt(copy.deepcopy(tx))
CombineWithCopy ==
    /\ ops < MaxOps
    /\ Bind(combine_with_other_psbt(tx[1], deepcopy(tx[1])), LAMBDA r :
           /\ tx' = Some(r.t)
           /\ err' = r.err)
    /\ hist' = Did("combine_with_copy", FALSE)
    /\ ops' = ops + 1
    /\ UNCHANGED <<raw, ret, other>>

\* tx.finalize_psbt()
CombineFinalize ==
    /\ ops < MaxOps
    /\ Bind(finalize_psbt(tx[1]), LAMBDA r :
           /\ tx' = Some(r.t)
           /\ err' = r.err)
    /\ hist' = Did("finalize_psbt", FALSE)
    /\ ops' = ops + 1
    /\ UNCHANGED <<raw, ret, other>>

\* ret = tx.serialize_as_bytes(force_psbt=force)
CombineSerialize ==
    /\ ops < MaxOps
    /\ \E force \in BOOLEAN :
          /\ Bind(serialize_as_bytes(tx[1], force), LAMBDA r :
                 /\ tx' = Some(r.t)
                 /\ err' = r.err
                 /\ ret' = IF r.err = "ok" THEN Some(r.v) ELSE NONE)
          /\ hist' = Did("serialize_as_bytes", force)
    /\ ops' = ops + 1
    /\ UNCHANGED <<raw, other>>

CombineNext ==
    \/ SetInputInfo
    \/ AddSignature
    \/ CombineWithOther
    \/ CombineWithCopy
    \/ CombineFinalize
    \/ CombineSerialize

SpecCombine == CombineInit /\ [][CombineNext]_vars

-----------------------------------------------------------------------------
(* Claims on SpecCombine.                                                   *)

\* the fields of an input the PSBT carries, without the memoized answers of
\* is_native_segwit and is_p2sh_segwit
InputFields(x) == [x EXCEPT !.native_memo = NONE, !.p2sh_memo = NONE]

\* the global maps, the inputs and the outputs of a PSBT
PsbtFields(t) ==
    [xpubs |-> t.xpubs, unknown |-> t.unknown,
     inputs |-> [i \in 1..Len(t.inputs[1]) |-> InputFields(t.inputs[1][i])],
     outputs |-> t.outputs[1], version |-> t.version, locktime |-> t.locktime]

\* what a serialization call gives: the exception, or the bytes
Outcome(r) == IF r.err # "ok" THEN <<r.err>> ELSE <<"ok", r.v>>

\* the serialized output of a PSBT: as PSBT, and as serialize_as_bytes()
\* returns it by default
SerializedOutput(t) ==
    <<Outcome(serialize_as_bytes(t, TRUE)), Outcome(serialize_as_bytes(t, FALSE))>>

\* C3: for any PSBT a, a.combine_with_other_psbt(copy of a) leaves a equal
\* to what it was before the call: same global maps, same per-input and
\* per-output fields, same PSBT serialization.
C3_CombineIdentity ==
    hist.last = "combine_with_copy"
        => /\ err = "ok"
           /\ PsbtFields(tx[1]) = PsbtFields(hist.pre[1])
           /\ SerializedOutput(tx[1]) = SerializedOutput(hist.pre[1])

\* the UTXO setters, which combine_with_other_txin runs for the UTXOs the
\* other input carries, accept the fields the input has
InputIsConsistent(x) ==
    (x.utxo = NONE /\ x.witness_utxo = NONE) \/ validate_data(x).err = "ok"

\* C3, amended: a.combine_with_other_psbt(copy of a) validates the inputs
\* of a that carry a UTXO again and raises where that fails; otherwise it
\* leaves a as a.finalize_psbt() leaves it and raises exactly what
\* finalize_psbt raises, and the serialization of a computed from its
\* fields, which finalizes first, is the same as before.
C3_CombineWithCopyFinalizes ==
    hist.last = "combine_with_copy"
        => IF \A i \in 1..Len(hist.pre[1].inputs[1]) :
                  InputIsConsistent(hist.pre[1].inputs[1][i])
           THEN Bind(finalize_psbt(hist.pre[1]), LAMBDA f :
                    /\ err = f.err
                    /\ PsbtFields(tx[1]) = PsbtFields(f.t)
                    /\ SerializedOutput(tx[1])
                           = SerializedOutput(invalidate_ser_cache(hist.pre[1])))
           ELSE err # "ok"

\* a copy was combined in and the finalize at the end changed an input
C3_Witness ==
    /\ hist.last = "combine_with_copy"
    /\ err = "ok"
    /\ PsbtFields(tx[1]) # PsbtFields(hist.pre[1])

\* C4: for any two PSBTs a and b over the same unsigned transaction, the
\* result of a.combine_with_other_psbt(b) and the result of
\* b.combine_with_other_psbt(a) have identical serialized output whenever
\* both are defined, whatever each side carries.
C4_CombineCommutes ==
    hist.last = "combine_with_other_psbt"
        => Bind(combine_with_other_psbt(hist.preo[1], hist.pre[1]), LAMBDA r :
               (err = "ok" /\ r.err = "ok")
                   => SerializedOutput(tx[1]) = SerializedOutput(r.t))

\* two dicts give the same value to every key both hold
Agree(f, g) == \A k \in (DOMAIN f) \cap (DOMAIN g) : f[k] = g[k]

\* two optional values are the same where both are set
AgreeOpt(p, q) == p = NONE \/ q = NONE \/ p = q

\* two inputs carry no field with different values, and the same wallet-side
\* script_type, pubkeys and num_sig
InputsAgree(x, o) ==
    /\ Agree(x.part_sigs, o.part_sigs)
    /\ Agree(x.bip32_paths, o.bip32_paths)
    /\ Agree(x.unknown, o.unknown)
    /\ AgreeOpt(x.sighash, o.sighash)
    /\ AgreeOpt(x.redeem_script, o.redeem_script)
    /\ AgreeOpt(x.witness_script, o.witness_script)
    /\ AgreeOpt(x.script_sig, o.script_sig)
    /\ AgreeOpt(x.witness, o.witness)
    /\ x.script_type = o.script_type
    /\ x.pubkeys = o.pubkeys
    /\ x.num_sig = o.num_sig

\* two outputs carry no field with different values
OutputsAgree(x, o) ==
    /\ Agree(x.bip32_paths, o.bip32_paths)
    /\ Agree(x.unknown, o.unknown)
    /\ AgreeOpt(x.redeem_script, o.redeem_script)
    /\ AgreeOpt(x.witness_script, o.witness_script)

\* two PSBTs over the same unsigned transaction carry no conflicting value
NoConflict(a, b) ==
    /\ Agree(a.xpubs, b.xpubs)
    /\ Agree(a.unknown, b.unknown)
    /\ \A i \in 1..Len(a.inputs[1]) : InputsAgree(a.inputs[1][i], b.inputs[1][i])
    /\ \A i \in 1..Len(a.outputs[1]) : OutputsAgree(a.outputs[1][i], b.outputs[1][i])

\* C4, amended: for two PSBTs a and b over the same unsigned transaction
\* that give no key or field different values and whose inputs have the same
\* script_type, pubkeys and num_sig, a.combine_with_other_psbt(b) and
\* b.combine_with_other_psbt(a) leave identical serialized output whenever
\* neither raises.
C4_CombineCommutesWithoutConflict ==
    (hist.last = "combine_with_other_psbt" /\ NoConflict(hist.pre[1], hist.preo[1]))
        => Bind(combine_with_other_psbt(hist.preo[1], hist.pre[1]), LAMBDA r :
               (err = "ok" /\ r.err = "ok")
                   => SerializedOutput(tx[1]) = SerializedOutput(r.t))

\* two different PSBTs without conflict were combined, and the other one
\* contributed to the result
C4_Witness ==
    /\ hist.last = "combine_with_other_psbt"
    /\ err = "ok"
    /\ NoConflict(hist.pre[1], hist.preo[1])
    /\ hist.pre[1].inputs[1][1].part_sigs # hist.preo[1].inputs[1][1].part_sigs
    /\ hist.preo[1].inputs[1][1].part_sigs # EmptyMap
    /\ PsbtFields(tx[1]) # PsbtFields(hist.pre[1])

\* C6: applying finalize twice leaves the same state as applying it once:
\* after tx.finalize_psbt(), which finalizes every input, a second
\* finalize_psbt() raises what the first raised and leaves script_sig,
\* witness, part_sigs, bip32_paths, redeem_script, witness_script, the UTXO
\* fields and the unknown records of every input as they are.
C6_FinalizeIdempotent ==
    hist.last = "finalize_psbt"
        => Bind(finalize_psbt(tx[1]), LAMBDA f :
               /\ f.err = err
               /\ PsbtFields(f.t) = PsbtFields(tx[1]))

\* finalize_psbt has turned the partial signatures of an input into its
\* script_sig and witness
C6_Witness ==
    /\ hist.last = "finalize_psbt"
    /\ err = "ok"
    /\ hist.pre[1].inputs[1][1].part_sigs # EmptyMap
    /\ hist.pre[1].inputs[1][1].script_sig = NONE
    /\ tx[1].inputs[1][1].script_sig # NONE
    /\ tx[1].inputs[1][1].witness # NONE
    /\ tx[1].inputs[1][1].part_sigs = EmptyMap

\* is_complete() of every input
AllInputsComplete(t) ==
    \A i \in 1..Len(t.inputs[1]) : is_complete(t.inputs[1][i]).v

\* bytes that parse as a transaction that serializes to the same bytes
ParsesAndReserializes(bs) ==
    Bind(deserialize(Transaction(Some(bs))), LAMBDA d :
    /\ d.err = "ok"
    /\ Bind(serialize_to_network(invalidate_ser_cache(d.t), TRUE, FALSE), LAMBDA r :
           r.err = "ok" /\ r.v = bs))

\* C10: whenever is_complete() reports true for every input of a
\* PartialTransaction, serializing it to the network format (finalize, then
\* serialize) succeeds without raising, and the resulting bytes parse as a
\* transaction that re-serializes to the same bytes.
C10_CompleteSerializes ==
    (hist.last = "serialize_as_bytes" /\ ~hist.force /\ AllInputsComplete(hist.pre[1]))
        => /\ err = "ok"
           /\ ret # NONE
           /\ ParsesAndReserializes(ret[1])

\* the inputs of t that do not meet the completion predicate
IncompleteInputs(t) ==
    {i \in 1..Len(t.inputs[1]) : ~is_complete(t.inputs[1][i]).v}

-----------------------------------------------------------------------------
(* Specification SpecJoin: tx and other, each built by from_io from inputs  *)
(* and outputs in memory.  tx is sorted, gets inputs, outputs and           *)
(* signatures, has its signatures removed, and is joined with other.        *)

\* PartialTxInput(prevout=TxOutpoint(txid, out_idx)) of a p2pkh address of the
\* wallet, with the partial signatures given
NewPartialTxInput(txid_byte, out_idx, part_sigs) ==
    [from_txin(TxInput(TxOutpoint(Rep(txid_byte, 32), <<out_idx, 0, 0, 0>>), NONE,
                       <<254, 255, 255, 255>>, NONE, NONE), FALSE)
        EXCEPT !.script_type = "p2pkh", !.pubkeys = <<PubKey(1)>>, !.part_sigs = part_sigs]

\* PartialTxOutput.from_address_and_value(address, value, asset): the
\* address is the p2pkh address of the hash h repeated, asset is a name or <<>>
from_address_and_value(h, value, asset) ==
    from_txout(TxOutput(IF asset # <<>>
                        THEN AssetScript(h, asset, <<value, 0, 0, 0, 0, 0, 0, 0>>)
                        ELSE P2PKHScript(h),
                        <<value, 0, 0, 0, 0, 0, 0, 0>>, asset))

PayOutput == from_address_and_value(5, 9, <<>>)

SmallOutput == from_address_and_value(7, 3, <<>>)

\* an output to the burn address
BurnOutput == from_address_and_value(66, 5, <<>>)

\* outputs of the asset "A" and of its ownership asset "A!"
AssetOutput == from_address_and_value(5, 1, <<65>>)

OwnerOutput == from_address_and_value(5, 1, <<65, 33>>)

\* the input lists and output lists transactions are built from
JoinInputs ==
    {<<NewPartialTxInput(1, 0, EmptyMap)>>,
     <<NewPartialTxInput(2, 0, PubKey(1) :> Sig(1)), NewPartialTxInput(1, 1, EmptyMap)>>,
     <<NewPartialTxInput(3, 0, PubKey(1) :> Sig(1))>>}

JoinOutputs ==
    {<<PayOutput>>,
     <<PayOutput, SmallOutput>>,
     <<PayOutput, PayOutput>>,
     <<AssetOutput, BurnOutput>>,
     <<OwnerOutput, PayOutput, AssetOutput, BurnOutput, SmallOutput>>}

JoinTxs ==
    {from_io(i, o, sort, for_swap) :
        i \in JoinInputs, o \in JoinOutputs, sort \in BOOLEAN, for_swap \in BOOLEAN}

JoinInit ==
    /\ raw = <<>>
    /\ tx \in {Some(t) : t \in JoinTxs}
    /\ other \in {Some(from_io(i, o, TRUE, FALSE)) : i \in JoinInputs, o \in JoinOutputs}
    /\ err = "ok"
    /\ ret = NONE
    /\ ops = 0
    /\ hist = [last |-> "init", pre |-> NONE, preo |-> NONE, force |-> FALSE]

\* tx.BIP69_sort()
SortBIP69 ==
    /\ ops < MaxOps
    /\ tx' = Some(BIP69_sort(tx[1], TRUE, TRUE))
    /\ err' = "ok"
    /\ hist' = Did("BIP69_sort", FALSE)
    /\ ops' = ops + 1
    /\ UNCHANGED <<raw, ret, other>>

\* tx.add_inputs([txin])
AddInputs ==
    /\ ops < MaxOps
    /\ tx' = Some(add_inputs(tx[1], <<NewPartialTxInput(0, 7, EmptyMap)>>))
    /\ err' = "ok"
    /\ hist' = Did("add_inputs", FALSE)
    /\ ops' = ops + 1
    /\ UNCHANGED <<raw, ret, other>>

\* tx.add_outputs([txout])
AddOutputs ==
    /\ ops < MaxOps
    /\ \E o \in {SmallOutput, BurnOutput, AssetOutput} :
          tx' = Some(add_outputs(tx[1], <<o>>))
    /\ err' = "ok"
    /\ hist' = Did("add_outputs", FALSE)
    /\ ops' = ops + 1
    /\ UNCHANGED <<raw, ret, other>>

\* tx.add_signature_to_txin(txin_idx=0, signing_pubkey=..., sig=...)
SignInput ==
    /\ ops < MaxOps
    /\ tx' = Some(add_signature_to_txin(tx[1], 1, PubKey(1), Sig(1)))
    /\ err' = "ok"
    /\ hist' = Did("add_signature_to_txin", FALSE)
    /\ ops' = ops + 1
    /\ UNCHANGED <<raw, ret, other>>

\* tx.remove_signatures()
RemoveSignatures ==
    /\ ops < MaxOps
    /\ Bind(remove_signatures(tx[1]), LAMBDA r :
           /\ tx' = Some(r.t)
           /\ err' = r.err)
    /\ hist' = Did("remove_signatures", FALSE)
    /\ ops' = ops + 1
    /\ UNCHANGED <<raw, ret, other>>

\* tx.join_with_other_psbt(other)
JoinWithOther ==
    /\ ops < MaxOps
    /\ Bind(join_with_other_psbt(tx[1], other[1]), LAMBDA r :
           /\ tx' = Some(r.t)
           /\ other' = Some(r.o)
           /\ err' = r.err)
    /\ hist' = Did("join_with_other_psbt", FALSE)
    /\ ops' = ops + 1
    /\ UNCHANGED <<raw, ret>>

JoinNext ==
    \/ SortBIP69
    \/ AddInputs
    \/ AddOutputs
    \/ SignInput
    \/ RemoveSignatures
    \/ JoinWithOther

SpecJoin == JoinInit /\ [][JoinNext]_vars

-----------------------------------------------------------------------------
(* Claims on SpecJoin.                                                      *)

\* how often an element is in a list
Count(xs, x) == Cardinality({i \in 1..Len(xs) : xs[i] = x})

\* the elements of zs are those of xs and those of ys, each as often
IsUnionOfLists(zs, xs, ys) ==
    \A z \in {zs[i] : i \in 1..Len(zs)} \cup {xs[i] : i \in 1..Len(xs)}
             \cup {ys[i] : i \in 1..Len(ys)} :
        Count(zs, z) = Count(xs, z) + Count(ys, z)

\* an input without partial signature, script-sig and witness
Unsigned(x) == x.part_sigs = EmptyMap /\ x.script_sig = NONE /\ x.witness = NONE

\* C5: when the input prevout sets of a and b are disjoint,
\* a.join_with_other_psbt(b) completes without error and leaves a with
\* exactly the union of both input sets and all outputs of both, with every
\* input of a having no partial signature, no script-sig and no witness.
C5_JoinNonOverlap ==
    (/\ hist.last = "join_with_other_psbt"
     /\ Prevouts(hist.pre[1].inputs[1]) \cap Prevouts(hist.preo[1].inputs[1]) = {})
        => /\ err = "ok"
           /\ Len(tx[1].inputs[1]) = Len(hist.pre[1].inputs[1]) + Len(hist.preo[1].inputs[1])
           /\ Prevouts(tx[1].inputs[1])
                = Prevouts(hist.pre[1].inputs[1]) \cup Prevouts(hist.preo[1].inputs[1])
           /\ IsUnionOfLists(tx[1].outputs[1], hist.pre[1].outputs[1], hist.preo[1].outputs[1])
           /\ \A i \in 1..Len(tx[1].inputs[1]) : Unsigned(tx[1].inputs[1][i])

\* a list is non-decreasing in the order Less
Sorted(xs, Less(_, _)) == \A i, j \in 1..Len(xs) : i < j => ~Less(xs[j], xs[i])

\* C7: after BIP69_sort on a transaction with for_swap false, the inputs are
\* non-decreasing by (prevout hash, index) and the outputs are
\* non-decreasing by (value, script bytes), for every set of outputs
\* including asset-carrying and burn-address outputs; with for_swap true the
\* order of inputs and outputs is left exactly as it was.
C7_BIP69Order ==
    hist.last = "BIP69_sort"
        => IF hist.pre[1].for_swap
           THEN /\ tx[1].inputs = hist.pre[1].inputs
                /\ tx[1].outputs = hist.pre[1].outputs
           ELSE /\ Sorted(tx[1].inputs[1], InputLess)
                /\ Sorted(tx[1].outputs[1], OutputLess)

\* an output to a burn address
IsBurn(o) == TxOutput_address(o) # NONE /\ TxOutput_address(o)[1] \in BURN_ADDRESSES

\* an output of an ownership asset, whose name ends with '!'
IsOwnerAsset(o) == ~IsBurn(o) /\ o.asset # <<>> /\ o.asset[Len(o.asset)] = 33

\* an output of another asset
IsOtherAsset(o) == ~IsBurn(o) /\ o.asset # <<>> /\ o.asset[Len(o.asset)] # 33

\* the asset ordering applies to a list with a burn-address output and an
\* output of an asset that is no ownership asset
AssetOrderApplies(outs) ==
    /\ \E i \in 1..Len(outs) : IsBurn(outs[i])
    /\ \E i \in 1..Len(outs) : IsOtherAsset(outs[i])

\* [burn] + sorted others + up to two ownership outputs + [asset]
InAssetOrder(outs) ==
    /\ IsBurn(outs[1])
    /\ IsOtherAsset(outs[Len(outs)])
    /\ \E k \in 0..2 :
          /\ k <= Len(outs) - 2
          /\ \A i \in (Len(outs) - k)..(Len(outs) - 1) : IsOwnerAsset(outs[i])
          /\ Sorted(SubSeq(outs, 2, Len(outs) - 1 - k), OutputLess)

\* C7, amended: after BIP69_sort on a transaction with for_swap false the
\* inputs are non-decreasing by (prevout hash, index); the outputs are
\* non-decreasing by (value, script bytes) unless they hold both a
\* burn-address output and an output of an asset that is no ownership
\* asset, and then they are a burn-address output, the other outputs
\* non-decreasing, up to two ownership-asset outputs, and an asset output
\* last.  With for_swap true inputs and outputs are left as they were.
C7_BIP69OrderWithAssetOrder ==
    hist.last = "BIP69_sort"
        => IF hist.pre[1].for_swap
           THEN /\ tx[1].inputs = hist.pre[1].inputs
                /\ tx[1].outputs = hist.pre[1].outputs
           ELSE /\ Sorted(tx[1].inputs[1], InputLess)
                /\ IF AssetOrderApplies(hist.pre[1].outputs[1])
                   THEN InAssetOrder(tx[1].outputs[1])
                   ELSE Sorted(tx[1].outputs[1], OutputLess)

\* BIP69_sort has reordered inputs and outputs, and the asset ordering has
\* put the burn-address output first and an ownership output before the
\* asset output
C7_Witness ==
    /\ hist.last = "BIP69_sort"
    /\ ~hist.pre[1].for_swap
    /\ tx[1].inputs # hist.pre[1].inputs
    /\ tx[1].outputs # hist.pre[1].outputs
    /\ Len(tx[1].outputs[1]) >= 4
    /\ IsBurn(tx[1].outputs[1][1])
    /\ IsOwnerAsset(tx[1].outputs[1][Len(tx[1].outputs[1]) - 1])
    /\ ~Sorted(tx[1].outputs[1], OutputLess)
-----------------------------------------------------------------------------
(* Signing: sign, sign_txin, serialize_preimage, get_preimage_script.       *)

OP_CODESEPARATOR == 171

\* ravencoin.pubkeyhash_to_p2pkh_script
pubkeyhash_to_p2pkh_script(pkh) == <<118, 169, 20>> \o pkh \o <<136, 172>>

\* ravencoin.public_key_to_p2pk_script
public_key_to_p2pk_script(pubkey) == push_script(pubkey) \o <<172>>

\* PartialTxInput.value_sats with no trusted value: NONE, or Some of the
\* [value, asset] of the output spent
value_sats(x) ==
    IF x.utxo # NONE
    THEN Bind(x.utxo[1].outputs[1][LEValue(x.prevout.out_idx) + 1], LAMBDA o :
         Some([value |-> o.value, asset |-> o.asset]))
    ELSE IF x.witness_utxo # NONE
    THEN Some([value |-> x.witness_utxo[1].value, asset |-> x.witness_utxo[1].asset])
    ELSE NONE

\* assets.guess_asset_script_for_vin with no wallet: the locking script
\* followed by the asset transfer of the output spent
guess_asset_script_for_vin(script, asset, amt) ==
    script \o <<OP_RVN_ASSET, 13 + Len(asset)>> \o RVN \o <<116, Len(asset)>>
    \o asset \o amt \o <<117>>

\* OP_CODESEPARATOR in [x[0] for x in script_GetOp(script)]: [err, v]
has_codeseparator(script) ==
    Bind(script_GetOp(script), LAMBDA g :
    [err |-> g.err,
     v |-> \E k \in 1..Len(g.ops) : g.ops[k].op = OP_CODESEPARATOR])

\* the locking script get_preimage_script builds from script_type and pubkeys
script_for_type(x) ==
    IF x.script_type \in MultiSigTypes THEN multisig_script(x.pubkeys, x.num_sig)
    ELSE IF x.script_type \in {"p2pkh", "p2wpkh", "p2wpkh-p2sh"}
    THEN IF x.pubkeys = <<>> THEN [err |-> "IndexError", v |-> <<>>]
         ELSE [err |-> "ok", v |-> pubkeyhash_to_p2pkh_script(hash_160(x.pubkeys[1]))]
    ELSE IF x.script_type = "p2pk"
    THEN IF x.pubkeys = <<>> THEN [err |-> "IndexError", v |-> <<>>]
         ELSE [err |-> "ok", v |-> public_key_to_p2pk_script(x.pubkeys[1])]
    ELSE [err |-> "UnknownTxinType", v |-> <<>>]

\* Transaction.get_preimage_script(txin) with no wallet and no overrides:
\* [err, v, x]
get_preimage_script(x) ==
    IF Truthy(x.witness_script)
    THEN Try(has_codeseparator(x.witness_script[1]), RetE("", <<>>, x), LAMBDA c :
         RetE(IF c.v THEN "Exception" ELSE "NotImplementedError", <<>>, x))
    ELSE Bind(is_segwit(x), LAMBDA sg :
    IF ~sg.v /\ Truthy(x.redeem_script)
    THEN Try(has_codeseparator(x.redeem_script[1]), RetE("", <<>>, sg.x), LAMBDA c :
         IF c.v THEN RetE("Exception", <<>>, sg.x)
         ELSE RetE("ok", x.redeem_script[1], sg.x))
    ELSE Try(script_for_type(x), RetE("", <<>>, sg.x), LAMBDA sc :
    Bind(value_sats(x), LAMBDA a :
    IF a = NONE THEN RetE("AttributeError", <<>>, sg.x)
    ELSE IF a[1].asset # <<>>
    THEN RetE("ok", guess_asset_script_for_vin(sc.v, a[1].asset, a[1].value), sg.x)
    ELSE RetE("ok", sc.v, sg.x))))

\* the transaction with input i replaced
WithInput(t, i, x) == [t EXCEPT !.inputs = Some([@[1] EXCEPT ![i] = x])]

\* the inputs of the legacy preimage: the input signed carries the script,
\* the others an empty one, and nsequence 0 under SIGHASH NONE and SINGLE
preimage_txins(ins, i, sighash, script) ==
    IF (sighash \div 128) % 2 = 1
    THEN var_int(1) \o serialize_input(ins[i], script)
    ELSE var_int(Len(ins))
         \o Concat([k \in 1..Len(ins) |->
                IF k = i THEN serialize_input(ins[k], script)
                ELSE IF sighash \in {2, 3}
                THEN serialize_input([ins[k] EXCEPT !.nsequence = <<0, 0, 0, 0>>], <<>>)
                ELSE serialize_input(ins[k], <<>>)])

\* the outputs of the legacy preimage; i is the 1-based index of the input
preimage_txouts(outs, i, sighash) ==
    IF sighash = 2 THEN [err |-> "ok", v |-> var_int(0)]
    ELSE IF sighash = 3
    THEN IF i - 1 > Len(outs) THEN [err |-> "Exception", v |-> <<>>]
         ELSE [err |-> "ok",
               v |-> var_int(i - 1)
                     \o Concat([k \in 1..Min(i, Len(outs)) |->
                            IF k < i THEN Rep(255, 8) \o var_int(0)
                            ELSE TxOutput_serialize_to_network(outs[k])])]
    ELSE [err |-> "ok", v |-> ser_txouts(outs)]

\* PartialTransaction.serialize_preimage(txin_index): [err, v, t]; i is
\* 1-based.  The segwit branch raises NotImplementedError.
serialize_preimage(t, i) ==
    Bind(t.inputs[1][i], LAMBDA x :
    Bind(IF x.sighash # NONE THEN x.sighash[1] ELSE 1, LAMBDA sighash :
    IF sighash \notin SIGHASH THEN TRet("Exception", <<>>, t)
    ELSE Bind(get_preimage_script(x), LAMBDA g :
    IF g.err # "ok" THEN TRet(g.err, <<>>, WithInput(t, i, g.x))
    ELSE Bind(is_segwit(g.x), LAMBDA sg :
    Bind(WithInput(t, i, sg.x), LAMBDA t1 :
    IF sg.v THEN TRet("NotImplementedError", <<>>, t1)
    ELSE IF (sighash \div 128) % 2 = 1 /\ sighash % 4 = 0
    THEN TRet("NotImplementedError", <<>>, t1)
    ELSE Try(preimage_txouts(t1.outputs[1], i, sighash), TRet("", <<>>, t1), LAMBDA o :
         TRet("ok",
              t1.version \o preimage_txins(t1.inputs[1], i, sighash, g.v) \o o.v
              \o t1.locktime \o <<sighash, 0, 0, 0>>,
              t1)))))))

\* ecc.ECPrivkey(sec).sign_transaction(pre_hash): a deterministic signature,
\* a function of the key and of the hash signed
sign_transaction(sec, pre_hash) == <<48, sec>> \o SubSeq(pre_hash, 1, 8)

\* PartialTransaction.sign_txin(txin_index, privkey_bytes): [err, v, t]
sign_txin(t, i, sec) ==
    Bind(validate_data(t.inputs[1][i]), LAMBDA vd :
    Bind(WithInput(t, i, vd.x), LAMBDA t0 :
    IF vd.err # "ok" THEN TRet(vd.err, <<>>, t0)
    ELSE Bind(IF vd.x.sighash # NONE THEN vd.x.sighash[1] ELSE 1, LAMBDA sighash :
    IF sighash > 255 THEN TRet("OverflowError", <<>>, t0)
    ELSE Bind(serialize_preimage(t0, i), LAMBDA p :
         IF p.err # "ok" THEN p
         ELSE TRet("ok",
                   sign_transaction(sec, sha256d(p.v))
                   \o <<IF vd.x.sighash # NONE /\ vd.x.sighash[1] # 0
                        THEN vd.x.sighash[1] ELSE 1>>,
                   p.t)))))

\* the loop of sign that signs for every pubkey, with the secret 0 where
\* keypairs has none
RECURSIVE sign_with_every_pubkey(_, _, _, _)
sign_with_every_pubkey(t, i, k, keypairs) ==
    IF k > Len(t.inputs[1][i].pubkeys) THEN [err |-> "ok", t |-> t]
    ELSE Bind(is_complete(t.inputs[1][i]), LAMBDA c :
    Bind(WithInput(t, i, c.x), LAMBDA t0 :
    IF c.v THEN [err |-> "ok", t |-> t0]
    ELSE Bind(c.x.pubkeys[k], LAMBDA pubkey :
    Bind(sign_txin(t0, i, IF pubkey \in DOMAIN keypairs THEN keypairs[pubkey] ELSE 0),
         LAMBDA sg :
    IF sg.err # "ok" THEN [err |-> sg.err, t |-> sg.t]
    ELSE sign_with_every_pubkey(add_signature_to_txin(sg.t, i, pubkey, sg.v),
                                i, k + 1, keypairs)))))

\* the loop of sign over the pubkeys of input i, from the k-th on: [err, t]
RECURSIVE sign_with_pubkeys(_, _, _, _)
sign_with_pubkeys(t, i, k, keypairs) ==
    IF k > Len(t.inputs[1][i].pubkeys) THEN [err |-> "ok", t |-> t]
    ELSE Bind(is_complete(t.inputs[1][i]), LAMBDA c :
    Bind(WithInput(t, i, c.x), LAMBDA t0 :
    IF c.v THEN [err |-> "ok", t |-> t0]
    ELSE Bind(c.x.pubkeys[k], LAMBDA pubkey :
    IF pubkey \notin DOMAIN keypairs THEN sign_with_pubkeys(t0, i, k + 1, keypairs)
    ELSE Bind(sign_txin(t0, i, keypairs[pubkey]), LAMBDA sg :
    IF sg.err # "ok" THEN [err |-> sg.err, t |-> sg.t]
    ELSE sign_with_pubkeys(add_signature_to_txin(sg.t, i, pubkey, sg.v),
                           i, k + 1, keypairs)))))

RECURSIVE sign_inputs(_, _, _)
sign_inputs(t, i, keypairs) ==
    IF i > Len(t.inputs[1]) THEN [err |-> "ok", t |-> t]
    ELSE Bind(sign_with_pubkeys(t, i, 1, keypairs), LAMBDA r :
         IF r.err # "ok" THEN r ELSE sign_inputs(r.t, i + 1, keypairs))

\* PartialTransaction.sign(keypairs): [err, v, t]; keypairs maps a pubkey to
\* its secret.  The shared BIP-143 digests computed first change nothing.
sign(t, keypairs) ==
    Bind(sign_inputs(t, 1, keypairs), LAMBDA r :
    IF r.err # "ok" THEN TRet(r.err, NONE, r.t)
    ELSE TRet("ok", NONE, invalidate_ser_cache(r.t)))

-----------------------------------------------------------------------------
(* Specification SpecSign: a PartialTransaction whose inputs the wallet has *)
(* filled in (UTXO, script type, pubkeys, scripts) and a copy of it; each   *)
(* is signed with sets of keys, the copy is combined in, and the result is  *)
(* finalized and serialized.                                                *)

\* number of calls explored on the two transactions
MaxSignOps == 3

PrevTxOf(n) == IF n = 1 THEN PrevTx ELSE OtherPrevTx

\* PartialTxInput(prevout=TxOutpoint(txid of the n-th previous tx, 0))
SpendInput(n) ==
    from_txin(TxInput(TxOutpoint(txid(Transaction(Some(PrevTxOf(n)))).v[1], <<0, 0, 0, 0>>),
                      NONE, <<254, 255, 255, 255>>, NONE, NONE), FALSE)

\* txin.utxo = Transaction(raw of the n-th previous tx)
WithUtxo(n) == set_utxo(SpendInput(n), Some(Transaction(Some(PrevTxOf(n))))).x

\* txin.witness_utxo = TxOutput(scriptpubkey, 9)
WithWitnessUtxo(n, spk) ==
    set_witness_utxo(SpendInput(n),
                     Some(TxOutput(spk, <<9, 0, 0, 0, 0, 0, 0, 0>>, <<>>))).x

MultisigPubkeys == <<PubKey(1), PubKey(2), PubKey(3)>>

\* the 2-of-3 multisig script of the three pubkeys
MultisigScript == multisig_script(MultisigPubkeys, 2).v

\* the scriptpubkey of the p2wsh output of a witness script
P2WSHScript(ws) == <<0, 32>> \o sha256(ws)

\* what the wallet knows of the coin spent, by kind: its previous
\* transaction, its output, or nothing
WalletUtxo(kind, n) ==
    IF kind \in {"p2pkh_1", "p2pkh_2", "p2pk_1", "p2wpkh_1", "unknown"} THEN WithUtxo(n)
    ELSE IF kind = "p2pkh_no_utxo" THEN SpendInput(n)
    ELSE WithWitnessUtxo(n, IF kind \in {"p2sh", "p2sh_no_script"}
                            THEN P2SHScript(MultisigScript)
                            ELSE P2WSHScript(MultisigScript))

\* the inputs signed: kind names the script type and what the wallet knows
WalletInput(kind, n) ==
    Bind(WalletUtxo(kind, n), LAMBDA x :
    IF kind = "p2pkh_1"
    THEN [x EXCEPT !.script_type = "p2pkh", !.pubkeys = <<PubKey(1)>>]
    ELSE IF kind = "p2pkh_2"
    THEN [x EXCEPT !.script_type = "p2pkh", !.pubkeys = <<PubKey(2)>>]
    ELSE IF kind = "p2pk_1"
    THEN [x EXCEPT !.script_type = "p2pk", !.pubkeys = <<PubKey(1)>>]
    ELSE IF kind = "p2pkh_no_utxo"
    THEN [x EXCEPT !.script_type = "p2pkh", !.pubkeys = <<PubKey(1)>>]
    ELSE IF kind = "p2sh"
    THEN [x EXCEPT !.script_type = "p2sh", !.pubkeys = MultisigPubkeys, !.num_sig = 2,
                   !.redeem_script = Some(MultisigScript)]
    ELSE IF kind = "p2sh_no_script"
    THEN [x EXCEPT !.script_type = "p2sh", !.pubkeys = MultisigPubkeys, !.num_sig = 2]
    ELSE IF kind = "p2wsh"
    THEN [x EXCEPT !.script_type = "p2wsh", !.pubkeys = MultisigPubkeys, !.num_sig = 2,
                   !.witness_script = Some(MultisigScript)]
    ELSE IF kind = "p2wsh_no_script"
    THEN [x EXCEPT !.script_type = "p2wsh", !.pubkeys = MultisigPubkeys, !.num_sig = 2]
    ELSE IF kind = "p2wpkh_1"
    THEN [x EXCEPT !.script_type = "p2wpkh", !.pubkeys = <<PubKey(1)>>]
    ELSE [x EXCEPT !.script_type = "unknown", !.pubkeys = <<PubKey(1)>>])

\* the sighash values the wallet or a PSBT may have set on an input
SignSighashes == {2, 3, 128, 129, 4, 257}

\* an input to sign: its kind and the sighash set on it, NONE or Some(h)
SignShape(kind, sighash) == [kind |-> kind, sighash |-> sighash]

\* the shapes of the input lists of the transactions signed
SignInputShapes ==
    {<<SignShape(k, NONE)>> :
        k \in {"p2pkh_1", "p2pkh_2", "p2pk_1", "p2pkh_no_utxo", "p2sh", "p2sh_no_script",
               "p2wsh", "p2wsh_no_script", "p2wpkh_1", "unknown"}}
    \cup {<<SignShape("p2pkh_1", Some(h))>> : h \in SignSighashes}
    \cup {<<SignShape(k[1], NONE), SignShape(k[2], NONE)>> :
             k \in {<<"p2pkh_1", "p2pkh_2">>, <<"p2pkh_2", "p2pkh_1">>,
                    <<"p2pkh_2", "p2sh">>, <<"p2wsh", "p2pkh_2">>,
                    <<"p2pkh_2", "unknown">>}}
    \cup {<<SignShape("p2pkh_2", NONE), SignShape("p2pkh_1", Some(h))>> : h \in {2, 3}}

\* the input lists of the transactions signed: the n-th input spends the
\* n-th previous transaction
SignInputs ==
    {[n \in 1..Len(c) |-> [WalletInput(c[n].kind, n) EXCEPT !.sighash = c[n].sighash]] :
        c \in SignInputShapes}

SignTxs == {from_io(i, <<PayOutput, SmallOutput>>, FALSE, FALSE) : i \in SignInputs}

\* keypairs: pubkey -> secret, for the keys 1, 2, both, and 3
Keypairs(ks) == [pk \in {PubKey(k) : k \in ks} |-> CHOOSE k \in ks : PubKey(k) = pk]

SignKeySets == {{1}, {2}, {3}, {1, 2}}

SignInit ==
    /\ raw = <<>>
    /\ \E t \in SignTxs : tx = Some(t) /\ other = Some(deepcopy(t))
    /\ err = "ok"
    /\ ret = NONE
    /\ ops = 0
    /\ hist = [last |-> "init", pre |-> NONE, preo |-> NONE, force |-> FALSE,
               keypairs |-> EmptyMap]

Signed(name, kp) ==
    [last |-> name, pre |-> tx, preo |-> other, force |-> FALSE, keypairs |-> kp]

\* tx.sign(keypairs)
SignTx ==
    /\ ops < MaxSignOps
    /\ \E ks \in SignKeySets :
          /\ Bind(sign(tx[1], Keypairs(ks)), LAMBDA r :
                 /\ tx' = Some(r.t)
                 /\ err' = r.err)
          /\ hist' = Signed("sign", Keypairs(ks))
    /\ ops' = ops + 1
    /\ UNCHANGED <<raw, ret, other>>

\* other.sign(keypairs), by the second signer
SignOtherCopy ==
    /\ ops < MaxSignOps
    /\ \E ks \in SignKeySets :
          /\ Bind(sign(other[1], Keypairs(ks)), LAMBDA r :
                 /\ other' = Some(r.t)
                 /\ err' = r.err)
          /\ hist' = Signed("sign_other", Keypairs(ks))
    /\ ops' = ops + 1
    /\ UNCHANGED <<raw, ret, tx>>

\* tx.combine_with_other_psbt(other)
SignCombine ==
    /\ ops < MaxSignOps
    /\ Bind(combine_with_other_psbt(tx[1], other[1]), LAMBDA r :
           /\ tx' = Some(r.t)
           /\ other' = Some(r.o)
           /\ err' = r.err)
    /\ hist' = Signed("combine_with_other_psbt", EmptyMap)
    /\ ops' = ops + 1
    /\ UNCHANGED <<raw, ret>>

\* tx.finalize_psbt()
SignFinalize ==
    /\ ops < MaxSignOps
    /\ Bind(finalize_psbt(tx[1]), LAMBDA r :
           /\ tx' = Some(r.t)
           /\ err' = r.err)
    /\ hist' = Signed("finalize_psbt", EmptyMap)
    /\ ops' = ops + 1
    /\ UNCHANGED <<raw, ret, other>>

\* ret = tx.serialize_as_bytes()
SignSerialize ==
    /\ ops < MaxSignOps
    /\ Bind(serialize_as_bytes(tx[1], FALSE), LAMBDA r :
           /\ tx' = Some(r.t)
           /\ err' = r.err
           /\ ret' = IF r.err = "ok" THEN Some(r.v) ELSE NONE)
    /\ hist' = Signed("serialize_as_bytes", EmptyMap)
    /\ ops' = ops + 1
    /\ UNCHANGED <<raw, other>>

SignNext ==
    \/ SignTx
    \/ SignOtherCopy
    \/ SignCombine
    \/ SignFinalize
    \/ SignSerialize

SpecSign == SignInit /\ [][SignNext]_vars

-----------------------------------------------------------------------------
(* Claims on SpecSign.                                                      *)

\* the inputs of t none of whose pubkeys is a key of keypairs
InputsWithoutKey(t, keypairs) ==
    {i \in 1..Len(t.inputs[1]) :
        \A k \in 1..Len(t.inputs[1][i].pubkeys) :
            t.inputs[1][i].pubkeys[k] \notin DOMAIN keypairs}

IsUnsignedP2WSHMultisig(x) ==
    /\ x.script_type = "p2wsh"
    /\ x.num_sig = 2
    /\ x.pubkeys = MultisigPubkeys
    /\ x.witness_script = Some(MultisigScript)
    /\ x.part_sigs = EmptyMap
    /\ x.script_sig = NONE
    /\ x.witness = NONE

\* a 2-of-3 multisig P2WSH input that one signer has signed
IsHalfSignedP2WSHMultisig(x) ==
    /\ x.script_type = "p2wsh"
    /\ x.num_sig = 2
    /\ Cardinality(DOMAIN x.part_sigs) = 1

\* the network serialization of t is produced and parses
SerializesAndParses(t) ==
    Bind(serialize_as_bytes(t, FALSE), LAMBDA r :
    /\ r.err = "ok"
    /\ deserialize(Transaction(Some(r.v))).err = "ok")

\* C13: multi-round signing reaches completion: sign() with one of the three
\* keys on a copy of a 2-of-3 multisig P2WSH PSBT raises nothing and stores
\* one signature, under the signing pubkey; combining two copies signed
\* with different keys raises nothing and leaves every input complete with
\* script_sig and witness set, and the network serialization parses.
C13_MultiRoundSigning ==
    /\ (/\ hist.last = "sign"
        /\ IsUnsignedP2WSHMultisig(hist.pre[1].inputs[1][1])
        /\ Cardinality(DOMAIN hist.keypairs) = 1)
           => /\ err = "ok"
              /\ DOMAIN tx[1].inputs[1][1].part_sigs = DOMAIN hist.keypairs
    /\ (/\ hist.last = "sign_other"
        /\ IsUnsignedP2WSHMultisig(hist.preo[1].inputs[1][1])
        /\ Cardinality(DOMAIN hist.keypairs) = 1)
           => /\ err = "ok"
              /\ DOMAIN other[1].inputs[1][1].part_sigs = DOMAIN hist.keypairs
    /\ (/\ hist.last = "combine_with_other_psbt"
        /\ IsHalfSignedP2WSHMultisig(hist.pre[1].inputs[1][1])
        /\ IsHalfSignedP2WSHMultisig(hist.preo[1].inputs[1][1])
        /\ DOMAIN hist.pre[1].inputs[1][1].part_sigs
              # DOMAIN hist.preo[1].inputs[1][1].part_sigs)
           => /\ err = "ok"
              /\ AllInputsComplete(tx[1])
              /\ \A i \in 1..Len(tx[1].inputs[1]) :
                     tx[1].inputs[1][i].script_sig # NONE /\ tx[1].inputs[1][i].witness # NONE
              /\ SerializesAndParses(tx[1])

-----------------------------------------------------------------------------
(* Specification SpecInput: the first input of a PartialTransaction.  Its   *)
(* utxo and witness_utxo are assigned, PSBT records are parsed into it, it  *)
(* is combined with other inputs of the same prevout, and its UTXO is       *)
(* converted to a witness UTXO.                                             *)

\* number of calls explored on the input
MaxInputOps == 3

\* the output PrevTx has at index 0, and an output that differs from it
SpentOutput == TxOutput_from_network_bytes(WireOutput("plain")).v[1]

OtherOutput == TxOutput(P2PKHScript(7), <<3, 0, 0, 0, 0, 0, 0, 0>>, <<>>)

\* the inputs the calls start from
StartInputs ==
    {SpendInput(1),
     [SpendInput(1) EXCEPT !.redeem_script = Some(RedeemScript)],
     [SpendInput(1) EXCEPT !.part_sigs = PubKey(1) :> Sig(1)]}

\* the values assigned to txin.utxo and to txin.witness_utxo
UtxoValues ==
    {NONE, Some(Transaction(Some(PrevTx))), Some(Transaction(Some(PrevTxWide))),
     Some(Transaction(Some(OtherPrevTx)))}

WitnessUtxoValues == {NONE, Some(SpentOutput), Some(OtherOutput)}

\* the records parsed into the input
InputRecords ==
    {KV(0, <<>>, PrevTx), KV(0, <<>>, OtherPrevTx), KV(0, <<1>>, PrevTx),
     KV(1, <<>>, WireOutput("plain")), KV(1, <<>>, TxOutput_serialize_to_network(OtherOutput)),
     KV(4, <<>>, RedeemScript), KV(2, PubKey(2), Sig(2))}

\* the inputs combined in: PartialTxInputs and a TxInput of the same prevout
OtherTxins ==
    {SpendInput(1), WithUtxo(1),
     set_witness_utxo(SpendInput(1), Some(SpentOutput)).x,
     set_witness_utxo(SpendInput(1), Some(OtherOutput)).x,
     [SpendInput(1) EXCEPT !.redeem_script = Some(RedeemScript)],
     [set_witness_utxo(SpendInput(1), Some(OtherOutput)).x
         EXCEPT !.script_sig = Some(SigPush)],
     [SpendInput(1) EXCEPT !.partial = FALSE, !.script_sig = Some(SigPush)]}

InputInit ==
    /\ raw = <<>>
    /\ \E x \in StartInputs : tx = Some(from_io(<<x>>, <<PayOutput>>, FALSE, FALSE))
    /\ other = NONE
    /\ err = "ok"
    /\ ret = NONE
    /\ ops = 0
    /\ hist = [last |-> "init", pre |-> NONE, arg |-> NONE]

\* what the last call was, the transaction before it, and its argument
Assigned(name, arg) == [last |-> name, pre |-> tx, arg |-> arg]

\* tx.inputs()[0].utxo = v
AssignUtxo ==
    /\ ops < MaxInputOps
    /\ \E v \in UtxoValues :
          /\ Bind(set_utxo(tx[1].inputs[1][1], v), LAMBDA r :
                 /\ tx' = Some(WithInput(tx[1], 1, r.x))
                 /\ err' = r.err)
          /\ hist' = Assigned("utxo", v)
    /\ ops' = ops + 1
    /\ UNCHANGED <<raw, ret, other>>

\* tx.inputs()[0].witness_utxo = v
AssignWitnessUtxo ==
    /\ ops < MaxInputOps
    /\ \E v \in WitnessUtxoValues :
          /\ Bind(set_witness_utxo(tx[1].inputs[1][1], v), LAMBDA r :
                 /\ tx' = Some(WithInput(tx[1], 1, r.x))
                 /\ err' = r.err)
          /\ hist' = Assigned("witness_utxo", v)
    /\ ops' = ops + 1
    /\ UNCHANGED <<raw, ret, other>>

\* tx.inputs()[0].parse_psbt_section_kv(kt, key, val)
ParseInputRecord ==
    /\ ops < MaxInputOps
    /\ \E kv \in InputRecords :
          /\ Bind(PartialTxInput_parse_psbt_section_kv(tx[1].inputs[1][1], kv), LAMBDA r :
                 /\ tx' = Some(WithInput(tx[1], 1, r.x))
                 /\ err' = r.err)
          /\ hist' = Assigned("parse_psbt_section_kv", kv)
    /\ ops' = ops + 1
    /\ UNCHANGED <<raw, ret, other>>

\* tx.inputs()[0].combine_with_other_txin(o)
CombineTxin ==
    /\ ops < MaxInputOps
    /\ \E o \in OtherTxins :
          /\ Bind(combine_with_other_txin(tx[1].inputs[1][1], o), LAMBDA r :
                 /\ tx' = Some(WithInput(tx[1], 1, r.x))
                 /\ err' = r.err)
          /\ hist' = Assigned("combine_with_other_txin", o)
    /\ ops' = ops + 1
    /\ UNCHANGED <<raw, ret, other>>

\* tx.inputs()[0].convert_utxo_to_witness_utxo()
ConvertUtxo ==
    /\ ops < MaxInputOps
    /\ tx' = Some(WithInput(tx[1], 1, convert_utxo_to_witness_utxo(tx[1].inputs[1][1])))
    /\ err' = "ok"
    /\ hist' = Assigned("convert_utxo_to_witness_utxo", NONE)
    /\ ops' = ops + 1
    /\ UNCHANGED <<raw, ret, other>>

InputNext ==
    \/ AssignUtxo
    \/ AssignWitnessUtxo
    \/ ParseInputRecord
    \/ CombineTxin
    \/ ConvertUtxo

SpecInput == InputInit /\ [][InputNext]_vars

-----------------------------------------------------------------------------
(* Claims on SpecInput.                                                     *)

\* C14: in every reachable state of a PartialTxInput, after any sequence of
\* assignments to utxo and witness_utxo (accepted or rejected), record
\* parsing, combine_with_other_txin and convert_utxo_to_witness_utxo, at
\* most one of the non-witness UTXO and the witness UTXO is set.
C14_AtMostOneUtxo ==
    ~(tx[1].inputs[1][1].utxo # NONE /\ tx[1].inputs[1][1].witness_utxo # NONE)

\* the call assigned a non-witness UTXO: txin.utxo = tx, or the parsing of
\* a non-witness UTXO record into an input that has none
AssignsUtxo ==
    \/ hist.last = "utxo" /\ hist.arg # NONE
    \/ hist.last = "parse_psbt_section_kv" /\ hist.arg.kt = 0
       /\ hist.pre[1].inputs[1][1].utxo = NONE

\* the transaction assigned, as tx_from_any(str(tx)) returns it
AssignedUtxo ==
    tx_from_any(IF hist.last = "utxo" THEN hist.arg[1]
                ELSE Transaction(Some(hist.arg.val))).t

\* the txid of the transaction assigned is not the txid of the prevout
TxidDiffers ==
    txid(AssignedUtxo).v # Some(hist.pre[1].inputs[1][1].prevout.txid)

\* the input has a witness UTXO that is not the output of the transaction
\* assigned at the prevout index
WitnessUtxoDiffers ==
    Bind(hist.pre[1].inputs[1][1], LAMBDA x :
    /\ x.witness_utxo # NONE
    /\ LEValue(x.prevout.out_idx) < Len(AssignedUtxo.outputs[1])
    /\ ~TxOutput_eq(AssignedUtxo.outputs[1][LEValue(x.prevout.out_idx) + 1],
                    x.witness_utxo[1]))

\* C15: assigning a non-witness UTXO to a PartialTxInput, directly or while
\* parsing a PSBT input section, fails with PSBTInputConsistencyFailure
\* whenever the txid of the UTXO differs from the txid of the prevout, and
\* whenever a witness UTXO is present and differs from the output of the
\* non-witness UTXO at the prevout index.
C15_UtxoAssignmentIsValidated ==
    (AssignsUtxo /\ (TxidDiffers \/ WitnessUtxoDiffers))
        => err = "PSBTInputConsistencyFailure"

\* a non-witness UTXO record with the txid of the prevout has been parsed
\* into an input whose witness UTXO is another output, and was rejected
C15_Witness ==
    /\ hist.last = "parse_psbt_section_kv"
    /\ AssignsUtxo
    /\ ~TxidDiffers
    /\ WitnessUtxoDiffers
    /\ err = "PSBTInputConsistencyFailure"

\* the fields of an input without the memoized answers, its utxo without
\* the serialization and txid caches
InputContent(x) ==
    [InputFields(x) EXCEPT !.utxo = IF @ = NONE THEN NONE ELSE Some(Fields(@[1]))]

\* C16: state unchanged on validation failure: when an assignment to utxo
\* or witness_utxo of a PartialTxInput, or a combine_with_other_txin call,
\* fails with a consistency failure, the input has every field as it was
\* before the call; the rejected UTXO is not stored.
C16_FailedCallLeavesInputUnchanged ==
    (/\ hist.last \in {"utxo", "witness_utxo", "combine_with_other_txin"}
     /\ err = "PSBTInputConsistencyFailure")
        => InputContent(tx[1].inputs[1][1]) = InputContent(hist.pre[1].inputs[1][1])

-----------------------------------------------------------------------------
(* Specification SpecDup: the actions of SpecPsbt on raw PSBTs in which one *)
(* section repeats a record, with another record before, between or after   *)
(* the two, and on the same sections without the repetition.                *)

\* a record of the global section, of an input section or of an output
\* section, by name
DupRecord(sec, name) ==
    IF sec = "global"
    THEN IF name = "unsigned_tx" THEN Rec(<<0>>, UnsignedTx(1, FALSE))
         ELSE IF name = "xpub" THEN Rec(<<1>> \o XPubKey, <<9, 9, 9, 9, 1, 0, 0, 0>>)
         ELSE IF name = "version" THEN Rec(<<251>>, <<0, 0, 0, 0>>)
         ELSE IF name = "unknown" THEN UnknownA
         ELSE UnknownB
    ELSE IF sec = "input"
    THEN IF name = "witness_script" THEN Rec(<<5>>, MultisigScript)
         ELSE InputSection(name)
    ELSE IF name = "witness_script" THEN Rec(<<1>>, MultisigScript)
         ELSE IF name = "unknown_b" THEN UnknownB
         ELSE OutputSection(name)

\* the record types of each section, and the other records put around them
DupNames(sec) ==
    IF sec = "global" THEN {"unsigned_tx", "xpub", "version", "unknown"}
    ELSE IF sec = "input"
    THEN {"utxo", "witness_utxo", "part_sig", "sighash", "redeem_only", "witness_script",
          "bip32", "final_sig", "final_witness", "unknown"}
    ELSE {"redeem", "witness_script", "bip32", "unknown"}

OtherNames(sec) ==
    IF sec = "global" THEN {"unknown_b"}
    ELSE IF sec = "input" THEN {"utxo", "unknown_other", "part_sig_other_key"}
    ELSE {"unknown_b"}

\* a section with the record d twice and the record o around it, and the
\* sections with d once
DupArrangements(d, o) ==
    {<<d, d>>, <<o, d, d>>, <<d, o, d>>, <<d, d, o>>, <<d>>, <<o, d>>}

DupShapes ==
    {[sec |-> sec, recs |-> r] :
        sec \in {"global", "input", "output"},
        r \in UNION {DupArrangements(d, o) :
                        d \in DupNames("global") \cup DupNames("input") \cup DupNames("output"),
                        o \in OtherNames("global") \cup OtherNames("input")
                              \cup OtherNames("output")}}

\* the shapes whose records all belong to the section
WellFormedDupShapes ==
    {c \in DupShapes :
        \A k \in 1..Len(c.recs) : c.recs[k] \in DupNames(c.sec) \cup OtherNames(c.sec)}

DupRecords(c) == Concat([k \in 1..Len(c.recs) |-> DupRecord(c.sec, c.recs[k])])

\* a PSBT of one input and one output; the global section has its unsigned
\* tx first unless the records name it
BuildDupPsbt(c) ==
    PSBT_MAGIC
    \o (IF c.sec # "global" THEN DupRecord("global", "unsigned_tx")
        ELSE IF \E k \in 1..Len(c.recs) : c.recs[k] = "unsigned_tx" THEN DupRecords(c)
        ELSE DupRecord("global", "unsigned_tx") \o DupRecords(c))
    \o <<0>>
    \o (IF c.sec = "input" THEN DupRecords(c) ELSE <<>>) \o <<0>>
    \o (IF c.sec = "output" THEN DupRecords(c) ELSE <<>>) \o <<0>>

DupPsbts == {BuildDupPsbt(c) : c \in WellFormedDupShapes}

DupInit ==
    /\ raw \in DupPsbts
    /\ tx = NONE
    /\ other = NONE
    /\ err = "ok"
    /\ ret = NONE
    /\ ops = 0
    /\ hist = [last |-> "init", prev |-> "init", force |-> FALSE]

SpecDup == DupInit /\ [][PsbtNext]_vars

-----------------------------------------------------------------------------
(* Claims on SpecDup.                                                       *)

\* SerializationError and its subclasses
SerializationFailures ==
    {"SerializationError", "BadHeaderMagic", "UnexpectedEndOfStream",
     "PSBTInputConsistencyFailure"}

\* a section of the PSBT has two records of the same key type and key data
HasDuplicateKey(P) ==
    Bind(psbt_records(Slice(P, 5, Len(P)), 0, <<>>), LAMBDA a :
    \E k \in 1..Len(a) : \E i, j \in 1..Len(a[k]) :
        i < j /\ a[k][i].kt = a[k][j].kt /\ a[k][i].key = a[k][j].key)

\* C17: PSBT parsing rejects with a serialization failure every input,
\* output or global section in which the same key (key type plus key data)
\* occurs twice, for every record type and for every order of the other
\* records of the section.
C17_DuplicateKeysRejected ==
    (hist.last = "from_raw_psbt" /\ HasDuplicateKey(raw))
        => err \in SerializationFailures

\* a PSBT with a repeated key has been parsed and rejected
C17_Rejected ==
    /\ hist.last = "from_raw_psbt"
    /\ HasDuplicateKey(raw)
    /\ err = "SerializationError"

-----------------------------------------------------------------------------
(* Specification SpecComplete: is_complete, finalize and                    *)
(* add_signature_to_txin on one input whose fields are drawn from small     *)
(* sets.                                                                    *)

MaxCompleteOps == 2

ScriptTypes == SingleSigTypes \cup MultiSigTypes \cup {"unknown"}

\* an input without UTXO, with a p2pkh UTXO, with a p2wpkh witness UTXO, with
\* a witness script, and a coinbase input; the prevout index is within the
\* outputs of the UTXO
CompleteBases ==
    {SpendInput(1), WithUtxo(1), WithWitnessUtxo(1, RedeemScript),
     [SpendInput(1) EXCEPT !.witness_script = Some(MultisigScript)],
     [SpendInput(1) EXCEPT !.prevout = TxOutpoint(Rep(0, 32), <<255, 255, 255, 255>>)]}

CompleteInputs ==
    {[b EXCEPT !.script_sig = ss, !.witness = w, !.script_type = st, !.num_sig = n,
               !.part_sigs = ps, !.pubkeys = MultisigPubkeys] :
        b \in CompleteBases,
        ss \in {NONE, Some(<<>>), Some(SigPush)},
        w \in {NONE, Some(<<0>>), Some(<<1, 3>> \o Sig(1))},
        st \in ScriptTypes,
        n \in {0, 2},
        ps \in {EmptyMap, (PubKey(1) :> Sig(1)) @@ (PubKey(2) :> Sig(2))}}

CompleteInit ==
    /\ raw = <<>>
    /\ \E x \in CompleteInputs : tx = Some(from_io(<<x>>, <<PayOutput>>, FALSE, FALSE))
    /\ other = NONE
    /\ err = "ok"
    /\ ret = NONE
    /\ ops = 0
    /\ hist = [last |-> "init", pre |-> NONE, v |-> FALSE]

\* tx.inputs()[0].is_complete()
IsComplete ==
    /\ ops < MaxCompleteOps
    /\ Bind(is_complete(tx[1].inputs[1][1]), LAMBDA c :
          /\ tx' = Some(WithInput(tx[1], 1, c.x))
          /\ hist' = [last |-> "is_complete", pre |-> tx, v |-> c.v])
    /\ err' = "ok"
    /\ ops' = ops + 1
    /\ UNCHANGED <<raw, ret, other>>

\* tx.add_signature_to_txin(txin_idx=0, signing_pubkey=..., sig=...)
AddSignatureToInput ==
    /\ ops < MaxCompleteOps
    /\ \E k \in 1..3 : tx' = Some(add_signature_to_txin(tx[1], 1, PubKey(k), Sig(k)))
    /\ hist' = [last |-> "add_signature_to_txin", pre |-> tx, v |-> FALSE]
    /\ err' = "ok"
    /\ ops' = ops + 1
    /\ UNCHANGED <<raw, ret, other>>

\* tx.inputs()[0].finalize()
FinalizeInput ==
    /\ ops < MaxCompleteOps
    /\ Bind(finalize(tx[1].inputs[1][1]), LAMBDA r :
          /\ tx' = Some(WithInput(tx[1], 1, r.x))
          /\ err' = r.err)
    /\ hist' = [last |-> "finalize", pre |-> tx, v |-> FALSE]
    /\ ops' = ops + 1
    /\ UNCHANGED <<raw, ret, other>>

CompleteNext == IsComplete \/ AddSignatureToInput \/ FinalizeInput

SpecComplete == CompleteInit /\ [][CompleteNext]_vars

-----------------------------------------------------------------------------
(* Claims on SpecComplete.                                                  *)

\* the cases in which the input counts as complete
CompleteByRule(x) ==
    \/ is_coinbase(x.prevout)
    \/ x.script_sig # NONE /\ x.witness # NONE
    \/ x.script_sig # NONE /\ ~is_segwit(x).v
    \/ /\ x.script_type \in {"p2pk", "p2pkh", "p2wpkh", "p2wpkh-p2sh"}
       /\ Cardinality(DOMAIN x.part_sigs) >= 1
    \/ /\ x.script_type \in {"p2sh", "p2wsh", "p2wsh-p2sh"}
       /\ Cardinality(DOMAIN x.part_sigs) >= x.num_sig

\* C18: PartialTxInput.is_complete() returns true exactly when the input is
\* a coinbase input, or both script_sig and witness are set, or the input is
\* non-segwit with script_sig set, or it has at least 1 partial signature
\* and a single-signature script type, or at least num_sig partial
\* signatures and a multi-signature script type; it returns false otherwise.
C18_CompletionPredicate ==
    hist.last = "is_complete" => (hist.v <=> CompleteByRule(hist.pre[1].inputs[1][1]))

\* is_complete has returned false for a segwit input that has a script-sig,
\* no witness, and none of the two signatures its script type p2wsh needs
C18_Witness ==
    /\ hist.last = "is_complete"
    /\ ~hist.v
    /\ Bind(hist.pre[1].inputs[1][1], LAMBDA x :
          /\ x.script_sig # NONE
          /\ x.witness = NONE
          /\ is_segwit(x).v
          /\ x.script_type = "p2wsh"
          /\ x.num_sig = 2
          /\ x.part_sigs = EmptyMap)

-----------------------------------------------------------------------------
(* BCDataStream as an object: input is NONE until the first write, and a    *)
(* read returns [err, v, s] with s the stream after the call.  Lengths      *)
(* passed to read_bytes are non-negative.                                   *)

SRet(e, v, s) == [err |-> e, v |-> v, s |-> s]

\* BCDataStream()
BCDataStream == [input |-> NONE, read_cursor |-> 0]

\* BCDataStream.clear
BCDataStream_clear(s) == [input |-> NONE, read_cursor |-> 0]

\* BCDataStream.write
BCDataStream_write(s, bs) ==
    [s EXCEPT !.input = IF @ = NONE THEN Some(bs) ELSE Some(@[1] \o bs)]

\* BCDataStream.read_bytes
BCDataStream_read_bytes(s, length) ==
    IF s.input = NONE THEN SRet("SerializationError", <<>>, s)
    ELSE Bind(read_bytes(s.input[1], s.read_cursor, length), LAMBDA r :
         SRet(r.err, r.v, [s EXCEPT !.read_cursor = r.pos]))

\* BCDataStream._read_num: struct.unpack_from raises TypeError on None and
\* struct.error on a short buffer, and both are turned into SerializationError
BCDataStream_read_num(s, w) ==
    IF s.input = NONE THEN SRet("SerializationError", <<>>, s)
    ELSE Bind(read_num(s.input[1], s.read_cursor, w), LAMBDA r :
         SRet(r.err, r.v, [s EXCEPT !.read_cursor = r.pos]))

\* BCDataStream.read_compact_size: self.input[self.read_cursor] raises
\* TypeError on None, and only IndexError is turned into SerializationError
BCDataStream_read_compact_size(s) ==
    IF s.input = NONE THEN SRet("TypeError", 0, s)
    ELSE Bind(read_compact_size(s.input[1], s.read_cursor), LAMBDA r :
         SRet(r.err, r.v, [s EXCEPT !.read_cursor = r.pos]))

\* bytes.decode('ascii')
decode_ascii(bs) ==
    IF \E k \in 1..Len(bs) : bs[k] >= 128
    THEN [err |-> "UnicodeDecodeError", v |-> <<>>]
    ELSE [err |-> "ok", v |-> bs]

\* BCDataStream.read_string
BCDataStream_read_string(s) ==
    IF s.input = NONE THEN SRet("SerializationError", <<>>, s)
    ELSE Bind(BCDataStream_read_compact_size(s), LAMBDA l :
         IF l.err # "ok" THEN SRet(l.err, <<>>, l.s)
         ELSE Bind(BCDataStream_read_bytes(l.s, l.v), LAMBDA b :
         IF b.err # "ok" THEN b
         ELSE Bind(decode_ascii(b.v), LAMBDA d : SRet(d.err, d.v, b.s))))

-----------------------------------------------------------------------------
(* Specification SpecStream: writes to and reads from one BCDataStream,     *)
(* held in raw; ret is the value of the last read.                          *)

MaxStreamOps == 3

MaxReadLen == 3

WriteChunks == {<<>>, <<2, 65, 66>>, <<1, 200>>, <<253, 1>>, <<254>>, <<5, 1>>}

StreamInit ==
    /\ raw = BCDataStream
    /\ tx = NONE
    /\ other = NONE
    /\ err = "ok"
    /\ ret = NONE
    /\ ops = 0
    /\ hist = [last |-> "init", pre |-> BCDataStream]

\* stream.write(bs)
StreamWrite ==
    /\ ops < MaxStreamOps
    /\ \E bs \in WriteChunks : raw' = BCDataStream_write(raw, bs)
    /\ err' = "ok"
    /\ ret' = NONE
    /\ hist' = [last |-> "write", pre |-> raw]
    /\ ops' = ops + 1
    /\ UNCHANGED <<tx, other>>

\* stream.clear()
StreamClear ==
    /\ ops < MaxStreamOps
    /\ raw' = BCDataStream_clear(raw)
    /\ err' = "ok"
    /\ ret' = NONE
    /\ hist' = [last |-> "clear", pre |-> raw]
    /\ ops' = ops + 1
    /\ UNCHANGED <<tx, other>>

\* stream.read_bytes(length)
StreamReadBytes ==
    /\ ops < MaxStreamOps
    /\ \E length \in 0..MaxReadLen :
          Bind(BCDataStream_read_bytes(raw, length), LAMBDA r :
             /\ raw' = r.s
             /\ err' = r.err
             /\ ret' = Some(r.v))
    /\ hist' = [last |-> "read_bytes", pre |-> raw]
    /\ ops' = ops + 1
    /\ UNCHANGED <<tx, other>>

\* stream.read_string()
StreamReadString ==
    /\ ops < MaxStreamOps
    /\ Bind(BCDataStream_read_string(raw), LAMBDA r :
          /\ raw' = r.s
          /\ err' = r.err
          /\ ret' = Some(r.v))
    /\ hist' = [last |-> "read_string", pre |-> raw]
    /\ ops' = ops + 1
    /\ UNCHANGED <<tx, other>>

\* stream.read_uint16(), read_int32(), read_uint64() and the other
\* fixed-width reads, by width
StreamReadNum ==
    /\ ops < MaxStreamOps
    /\ \E w \in {2, 4, 8} :
          Bind(BCDataStream_read_num(raw, w), LAMBDA r :
             /\ raw' = r.s
             /\ err' = r.err
             /\ ret' = Some(r.v))
    /\ hist' = [last |-> "read_num", pre |-> raw]
    /\ ops' = ops + 1
    /\ UNCHANGED <<tx, other>>

\* stream.read_compact_size()
StreamReadCompactSize ==
    /\ ops < MaxStreamOps
    /\ Bind(BCDataStream_read_compact_size(raw), LAMBDA r :
          /\ raw' = r.s
          /\ err' = r.err
          /\ ret' = Some(<<r.v>>))
    /\ hist' = [last |-> "read_compact_size", pre |-> raw]
    /\ ops' = ops + 1
    /\ UNCHANGED <<tx, other>>

StreamNext ==
    \/ StreamWrite
    \/ StreamClear
    \/ StreamReadBytes
    \/ StreamReadString
    \/ StreamReadNum
    \/ StreamReadCompactSize

SpecStream == StreamInit /\ [][StreamNext]_vars

-----------------------------------------------------------------------------
(* Claims on SpecStream.                                                    *)

StreamReads == {"read_bytes", "read_string", "read_num", "read_compact_size"}

\* C19: every failed read on the stream (read_bytes, read_string, the
\* fixed-width integer reads and read_compact_size), including a read on a
\* stream to which nothing has been written and a read that runs past the
\* end, raises SerializationError and no other kind of failure.
C19_ReadsFailWithSerializationError ==
    hist.last \in StreamReads => err \in {"ok", "SerializationError"}

\* a read past the end of a written stream has raised SerializationError
C19_PastEnd ==
    /\ hist.last \in StreamReads
    /\ hist.pre.input # NONE
    /\ err = "SerializationError"

-----------------------------------------------------------------------------
(* Specification SpecScript: script_GetOp on scripts drawn from the short   *)
(* byte strings over a few opcodes and from longer pushes; raw is the       *)
(* script and hist holds the triples yielded.                               *)

MaxScriptLen == 3

\* OP_0, direct pushes of 1 and 2 bytes, OP_PUSHDATA1/2/4 and OP_DROP
ScriptBytes == {0, 1, 2, OP_PUSHDATA1, OP_PUSHDATA2, OP_PUSHDATA4, 117}

ShortScripts == UNION {[1..n -> ScriptBytes] : n \in 0..MaxScriptLen}

\* OP_PUSHDATA2 and OP_PUSHDATA4 with their length prefix whole or cut off,
\* and their payload whole or cut off
LongPushes ==
    {<<OP_PUSHDATA2, 1, 0, 9>>, <<OP_PUSHDATA2, 2, 0, 9>>, <<OP_PUSHDATA2, 2, 0, 9, 9>>,
     <<OP_PUSHDATA4, 1, 0, 0>>, <<OP_PUSHDATA4, 1, 0, 0, 0>>, <<OP_PUSHDATA4, 1, 0, 0, 0, 9>>,
     <<OP_PUSHDATA4, 2, 0, 0, 0, 9>>, <<117, OP_PUSHDATA1, 2, 9, 9>>, <<117, OP_PUSHDATA1, 3, 9, 9>>}

ScriptInit ==
    /\ raw \in ShortScripts \cup LongPushes
    /\ tx = NONE
    /\ other = NONE
    /\ err = "ok"
    /\ ret = NONE
    /\ ops = 0
    /\ hist = [last |-> "init", ops |-> <<>>]

\* list(script_GetOp(raw)): the triples yielded, and the failure raised
GetOp ==
    /\ hist.last = "init"
    /\ Bind(script_GetOp(raw), LAMBDA g :
          /\ err' = g.err
          /\ hist' = [last |-> "script_GetOp", ops |-> g.ops])
    /\ ops' = ops + 1
    /\ UNCHANGED <<raw, tx, other, ret>>

ScriptNext == GetOp

SpecScript == ScriptInit /\ [][ScriptNext]_vars

-----------------------------------------------------------------------------
(* Claims on SpecScript.                                                    *)

\* the width of the length prefix that follows a push opcode
PrefixWidth(opcode) ==
    IF opcode = 76 THEN 1 ELSE IF opcode = 77 THEN 2 ELSE IF opcode = 78 THEN 4 ELSE 0

\* the script, walked from offset i, has a push whose length prefix or whose
\* payload runs past the end of the script
RECURSIVE HasTruncatedPush(_, _)
HasTruncatedPush(bs, i) ==
    IF i >= Len(bs) THEN FALSE
    ELSE IF bs[i + 1] > 78 THEN HasTruncatedPush(bs, i + 1)
    ELSE Bind(PrefixWidth(bs[i + 1]), LAMBDA w :
         IF i + 1 + w > Len(bs) THEN TRUE
         ELSE Bind(IF w = 0 THEN bs[i + 1] ELSE LEValue(SubSeq(bs, i + 2, i + 1 + w)),
                   LAMBDA declared :
              IF i + 1 + w + declared > Len(bs) THEN TRUE
              ELSE HasTruncatedPush(bs, i + 1 + w + declared)))

\* C20: script_GetOp signals MalformedBitcoinScript for every script that
\* contains a truncated push (a direct push or an OP_PUSHDATA1/2/4 whose
\* declared payload length exceeds the bytes remaining, or an
\* OP_PUSHDATA1/2/4 whose length prefix is cut off), and it never yields a
\* payload shorter than declared: no triple ends past the end of the script.
C20_TruncatedPushIsMalformed ==
    hist.last = "script_GetOp"
        => /\ HasTruncatedPush(raw, 0) => err = "MalformedBitcoinScript"
           /\ \A k \in 1..Len(hist.ops) : hist.ops[k].i <= Len(raw)

\* a script whose OP_PUSHDATA length prefix is cut off has been walked and
\* MalformedBitcoinScript was raised
C20_CutOffPrefix ==
    /\ hist.last = "script_GetOp"
    /\ HasTruncatedPush(raw, 0)
    /\ err = "MalformedBitcoinScript"

-----------------------------------------------------------------------------
(* Specification SpecTemplate: match_script_against_template and            *)
(* get_script_type_from_output_script on a script S and on S followed by    *)
(* OP_RVN_ASSET and further bytes; raw is the extended script and hist      *)
(* holds S, the template and the two results.                               *)

MaxMatchOps == 2

\* the templates matched against, by name
Templates ==
    [p2pk |-> SCRIPTPUBKEY_TEMPLATE_P2PK, p2pkh |-> SCRIPTPUBKEY_TEMPLATE_P2PKH,
     p2sh |-> SCRIPTPUBKEY_TEMPLATE_P2SH, p2wpkh |-> SCRIPTPUBKEY_TEMPLATE_P2WPKH,
     p2wsh |-> SCRIPTPUBKEY_TEMPLATE_P2WSH, witness_v0 |-> SCRIPTPUBKEY_TEMPLATE_WITNESS_V0,
     anysegwit |-> TemplateWitnessFuture]

\* scripts without the opcode OP_RVN_ASSET: the standard shapes, one whose
\* pushed data holds the byte of OP_RVN_ASSET, non-standard ones, and
\* scripts whose last push is cut off
BaseScripts ==
    {P2PKHScript(1), <<118, 169, 20>> \o Rep(OP_RVN_ASSET, 20) \o <<136, 172>>,
     P2SHScript(<<1>>), <<0, 20>> \o Rep(1, 20), <<0, 32>> \o Rep(1, 32),
     <<33>> \o PubKey(1) \o <<172>>, <<81, 32>> \o Rep(1, 32),
     <<>>, <<117>>, <<118, 169>>,
     <<0, 20, 1, 2, 3>>, <<169, 20, 1>>, <<0, OP_PUSHDATA1>>}

\* what follows OP_RVN_ASSET: nothing, the push and OP_DROP of a transfer,
\* single opcodes, a second OP_RVN_ASSET, 16 or 18 bytes and OP_EQUAL, and
\* a push opcode whose length prefix is missing
AssetSuffixes ==
    {<<>>, <<14>> \o RVN \o <<116, 1, 65>> \o PadLE8(<<1>>) \o <<117>>, <<117>>, <<172>>,
     <<OP_RVN_ASSET, 1, 7>>, Rep(7, 16) \o <<135>>, Rep(7, 18) \o <<135>>, <<OP_PUSHDATA1>>}

TemplateInit ==
    /\ \E S \in BaseScripts : \E suffix \in AssetSuffixes :
          /\ raw = S \o <<OP_RVN_ASSET>> \o suffix
          /\ hist = [last |-> "init", S |-> S, template |-> "", with |-> FALSE,
                     without |-> FALSE]
    /\ tx = NONE
    /\ other = NONE
    /\ err = "ok"
    /\ ret = NONE
    /\ ops = 0

\* match_script_against_template(raw, T) and match_script_against_template(S, T)
MatchTemplate ==
    /\ ops < MaxMatchOps
    /\ \E T \in DOMAIN Templates :
          hist' = [last |-> "match_script_against_template", S |-> hist.S, template |-> T,
                   with |-> match_script_against_template(Some(raw), Templates[T]),
                   without |-> match_script_against_template(Some(hist.S), Templates[T])]
    /\ ops' = ops + 1
    /\ UNCHANGED <<raw, tx, other, err, ret>>

\* ret = get_script_type_from_output_script(raw); the type of S is kept in
\* hist.template
GetScriptType ==
    /\ ops < MaxMatchOps
    /\ ret' = Some(get_script_type_from_output_script(Some(raw)))
    /\ hist' = [last |-> "get_script_type_from_output_script", S |-> hist.S,
                template |-> get_script_type_from_output_script(Some(hist.S)),
                with |-> FALSE, without |-> FALSE]
    /\ ops' = ops + 1
    /\ UNCHANGED <<raw, tx, other, err>>

TemplateNext == MatchTemplate \/ GetScriptType

SpecTemplate == TemplateInit /\ [][TemplateNext]_vars

-----------------------------------------------------------------------------
(* Claims on SpecTemplate.                                                  *)

\* the walk of the script yields no element with the opcode OP_RVN_ASSET
HasNoAssetOpcode(S) ==
    Bind(script_GetOp(S), LAMBDA g :
        \A k \in 1..Len(g.ops) : g.ops[k].op # OP_RVN_ASSET)

\* C21: template matching ignores the asset suffix: for every script S
\* without OP_RVN_ASSET and every template T, matching S followed by
\* OP_RVN_ASSET and any further elements against T gives the result of
\* matching S against T.
C21_AssetSuffixIgnored ==
    (hist.last = "match_script_against_template" /\ HasNoAssetOpcode(hist.S))
        => hist.with = hist.without

\* a script with an asset suffix has been matched against its template
C21_Matched ==
    /\ hist.last = "match_script_against_template"
    /\ HasNoAssetOpcode(hist.S)
    /\ hist.with
    /\ hist.without

-----------------------------------------------------------------------------
(* Specification SpecPreimage: serialize_preimage on a swap transaction     *)
(* (for_swap set) of one to three p2pkh inputs and zero to three outputs,   *)
(* between calls that add an input or an output and that write an output    *)
(* value, an input's nSequence, the version or the locktime.                *)

MaxPreimageOps == 2

\* a non-segwit input of the wallet: witness UTXO paying to a p2pkh script
PreimageBase ==
    [WithWitnessUtxo(1, P2PKHScript(1)) EXCEPT !.script_type = "p2pkh",
                                              !.pubkeys = <<PubKey(1)>>]

\* the input spending output 0 of the transaction k, with the sighash given
PreimageInput(k, sighash) ==
    [PreimageBase EXCEPT !.prevout = TxOutpoint(Rep(k, 32), <<0, 0, 0, 0>>),
                         !.sighash = sighash]

\* unset (ALL), NONE, SINGLE, ALL|ANYONECANPAY, SINGLE|ANYONECANPAY
PreimageSighashes == {NONE, Some(2), Some(3), Some(129), Some(131)}

PreimageOutputs == <<PayOutput, SmallOutput, BurnOutput>>

PreimageTxs ==
    {from_io([k \in 1..nin |-> PreimageInput(k, h)], SubSeq(PreimageOutputs, 1, nout),
             FALSE, TRUE) :
        nin \in 1..3, nout \in 0..3, h \in PreimageSighashes}

PreimageInit ==
    /\ raw = <<>>
    /\ tx \in {Some(t) : t \in PreimageTxs}
    /\ other = NONE
    /\ err = "ok"
    /\ ret = NONE
    /\ ops = 0
    /\ hist = [last |-> "init", pre |-> NONE, k |-> 0]

\* ret = tx.serialize_preimage(i - 1)
SerializePreimage ==
    /\ ops < MaxPreimageOps
    /\ \E i \in 1..Len(tx[1].inputs[1]) :
          /\ Bind(serialize_preimage(tx[1], i), LAMBDA r :
                 /\ tx' = Some(r.t)
                 /\ err' = r.err
                 /\ ret' = IF r.err = "ok" THEN Some(r.v) ELSE NONE)
          /\ hist' = [last |-> "serialize_preimage", pre |-> tx, k |-> i]
    /\ ops' = ops + 1
    /\ UNCHANGED <<raw, other>>

\* tx.add_inputs([txin])
PreimageAddInput ==
    /\ ops < MaxPreimageOps
    /\ \E h \in {NONE, Some(131)} :
          tx' = Some(add_inputs(tx[1], <<PreimageInput(9, h)>>))
    /\ hist' = [last |-> "add_inputs", pre |-> tx, k |-> Len(tx[1].inputs[1]) + 1]
    /\ err' = "ok"
    /\ ops' = ops + 1
    /\ UNCHANGED <<raw, ret, other>>

\* tx.add_outputs([txout])
PreimageAddOutput ==
    /\ ops < MaxPreimageOps
    /\ tx' = Some(add_outputs(tx[1], <<AssetOutput>>))
    /\ hist' = [last |-> "add_outputs", pre |-> tx, k |-> Len(tx[1].outputs[1]) + 1]
    /\ err' = "ok"
    /\ ops' = ops + 1
    /\ UNCHANGED <<raw, ret, other>>

\* tx.outputs()[k - 1].value = 4
PreimageSetOutputValue ==
    /\ ops < MaxPreimageOps
    /\ \E k \in 1..Len(tx[1].outputs[1]) :
          /\ tx' = Some([tx[1] EXCEPT !.outputs =
                            Some([@[1] EXCEPT ![k].value = <<4, 0, 0, 0, 0, 0, 0, 0>>])])
          /\ hist' = [last |-> "set_output_value", pre |-> tx, k |-> k]
    /\ err' = "ok"
    /\ ops' = ops + 1
    /\ UNCHANGED <<raw, ret, other>>

\* tx.inputs()[k - 1].nsequence = 7
PreimageSetNSequence ==
    /\ ops < MaxPreimageOps
    /\ \E k \in 1..Len(tx[1].inputs[1]) :
          /\ tx' = Some(WithInput(tx[1], k,
                                  [tx[1].inputs[1][k] EXCEPT !.nsequence = <<7, 0, 0, 0>>]))
          /\ hist' = [last |-> "set_nsequence", pre |-> tx, k |-> k]
    /\ err' = "ok"
    /\ ops' = ops + 1
    /\ UNCHANGED <<raw, ret, other>>

\* tx.version = 1
PreimageSetVersion ==
    /\ ops < MaxPreimageOps
    /\ tx' = Some(set_version(tx[1], <<1, 0, 0, 0>>))
    /\ hist' = [last |-> "set_version", pre |-> tx, k |-> 0]
    /\ err' = "ok"
    /\ ops' = ops + 1
    /\ UNCHANGED <<raw, ret, other>>

\* tx.locktime = 5
PreimageSetLocktime ==
    /\ ops < MaxPreimageOps
    /\ tx' = Some(set_locktime(tx[1], <<5, 0, 0, 0>>))
    /\ hist' = [last |-> "set_locktime", pre |-> tx, k |-> 0]
    /\ err' = "ok"
    /\ ops' = ops + 1
    /\ UNCHANGED <<raw, ret, other>>

PreimageNext ==
    \/ SerializePreimage
    \/ PreimageAddInput
    \/ PreimageAddOutput
    \/ PreimageSetOutputValue
    \/ PreimageSetNSequence
    \/ PreimageSetVersion
    \/ PreimageSetLocktime

SpecPreimage == PreimageInit /\ [][PreimageNext]_vars

-----------------------------------------------------------------------------
(* Claims on SpecPreimage.                                                  *)

\* the output vector SIGHASH_SINGLE signs for input i (1-based): i entries,
\* the first i - 1 with value 2^64 - 1 and an empty script, then output i
SingleOutputVector(outs, i) ==
    var_int(i)
    \o Concat([k \in 1..i |-> IF k < i THEN Rep(255, 8) \o var_int(0)
                              ELSE TxOutput_serialize_to_network(outs[k])])

\* C22: legacy pre-image with sighash SINGLE for input index i:
\* serialize_preimage raises whenever i >= number of outputs; otherwise the
\* output vector of the pre-image has exactly i + 1 entries, outputs 0..i-1
\* with empty script and value 2^64 - 1 and output i intact.  (hist.k is
\* the 1-based position of the input, i + 1.)
C22_SingleOutputVector ==
    (/\ hist.last = "serialize_preimage"
     /\ hist.pre[1].inputs[1][hist.k].sighash = Some(3))
        => Bind(hist.pre[1], LAMBDA t :
           IF hist.k > Len(t.outputs[1]) THEN err # "ok"
           ELSE /\ err = "ok"
                /\ ret = Some(t.version
                              \o preimage_txins(t.inputs[1], hist.k, 3,
                                                get_preimage_script(t.inputs[1][hist.k]).v)
                              \o SingleOutputVector(t.outputs[1], hist.k)
                              \o t.locktime \o <<3, 0, 0, 0>>))

\* the pre-image of an input with sighash SINGLE that has an output of its
\* index has been serialized
C22_Serialized ==
    /\ hist.last = "serialize_preimage"
    /\ hist.pre[1].inputs[1][hist.k].sighash = Some(3)
    /\ hist.k <= Len(hist.pre[1].outputs[1])
    /\ err = "ok"

\* the pre-image of input i (1-based) of the transaction, as [err, v]
PreimageOf(t, i) == Bind(serialize_preimage(t, i), LAMBDA r : [err |-> r.err, v |-> r.v])

\* the 1-based positions of the inputs with sighash SINGLE|ANYONECANPAY
\* that the transaction had before the last call
SwapInputs ==
    IF hist.pre = NONE THEN {}
    ELSE {i \in 1..Len(hist.pre[1].inputs[1]) : hist.pre[1].inputs[1][i].sighash = Some(131)}

\* the last call wrote outside what SINGLE|ANYONECANPAY covers for input i:
\* it appended an input, changed another input, or added or changed an
\* output other than output i
OutsideCoverage(i) ==
    \/ hist.last = "add_inputs"
    \/ hist.last = "set_nsequence" /\ hist.k # i
    \/ hist.last \in {"add_outputs", "set_output_value"} /\ hist.k # i

\* the last call changed input i's nSequence, output i, the version or the
\* locktime
InsideCoverage(i) ==
    \/ hist.last = "set_nsequence" /\ hist.k = i
          /\ tx[1].inputs[1][i].nsequence # hist.pre[1].inputs[1][i].nsequence
    \/ hist.last = "set_output_value" /\ hist.k = i
          /\ tx[1].outputs[1][i] # hist.pre[1].outputs[1][i]
    \/ hist.last = "set_version" /\ tx[1].version # hist.pre[1].version
    \/ hist.last = "set_locktime" /\ tx[1].locktime # hist.pre[1].locktime

\* C23: for a non-segwit input i with sighash SINGLE|ANYONECANPAY the
\* pre-image of serialize_preimage(i) is unchanged when another input is
\* appended or changed and when an output other than output i is added or
\* changed, and it changes when input i's nSequence, output i, the version
\* or the locktime changes.
C23_SingleAnyoneCanPayCoverage ==
    \A i \in SwapInputs :
        /\ OutsideCoverage(i) => PreimageOf(tx[1], i) = PreimageOf(hist.pre[1], i)
        /\ InsideCoverage(i) => PreimageOf(tx[1], i) # PreimageOf(hist.pre[1], i)

\* an input has been appended to a swap transaction whose input 1 has
\* sighash SINGLE|ANYONECANPAY, and the pre-image of input 1 is as before
C23_InputAppended ==
    /\ hist.last = "add_inputs"
    /\ 1 \in SwapInputs
    /\ Len(tx[1].inputs[1]) = Len(hist.pre[1].inputs[1]) + 1
    /\ PreimageOf(tx[1], 1).err = "ok"
    /\ PreimageOf(tx[1], 1) = PreimageOf(hist.pre[1], 1)


-----------------------------------------------------------------------------
(* set_rbf: the rbf toggle of a PartialTransaction.                         *)

\* PartialTransaction.set_rbf(rbf): 0xfffffffd or 0xfffffffe in every input,
\* except, under for_swap, the inputs whose sighash is set and has a bit in
\* common with SIGHASH.SINGLE (0x03); then invalidate_ser_cache()
set_rbf(t, rbf) ==
    invalidate_ser_cache(
        [t EXCEPT !.inputs = Some([k \in 1..Len(t.inputs[1]) |->
            Bind(t.inputs[1][k], LAMBDA txin :
            IF /\ t.for_swap
               /\ txin.sighash # NONE
               /\ txin.sighash[1] # 0
               /\ txin.sighash[1] % 4 # 0
            THEN txin
            ELSE [txin EXCEPT !.nsequence = <<IF rbf THEN 253 ELSE 254, 255, 255, 255>>])])])

MaxRbfOps == 2

\* unset, ALL, NONE, SINGLE and the three ANYONECANPAY sums
RbfSighashes == {NONE, Some(1), Some(2), Some(3), Some(129), Some(130), Some(131)}

\* two inputs with nSequence 7, each with a sighash of its own, and one
\* output; for_swap set or not
RbfTxs ==
    {from_io([k \in 1..2 |-> [PreimageInput(k, h[k]) EXCEPT !.nsequence = <<7, 0, 0, 0>>]],
             <<PayOutput>>, FALSE, fs) :
        h \in [1..2 -> RbfSighashes], fs \in BOOLEAN}

RbfInit ==
    /\ raw = <<>>
    /\ tx \in {Some(t) : t \in RbfTxs}
    /\ other = NONE
    /\ err = "ok"
    /\ ret = NONE
    /\ ops = 0
    /\ hist = [last |-> "init", pre |-> NONE, rbf |-> FALSE]

\* tx.set_rbf(rbf)
SetRbf ==
    /\ ops < MaxRbfOps
    /\ \E rbf \in BOOLEAN :
          /\ tx' = Some(set_rbf(tx[1], rbf))
          /\ hist' = [last |-> "set_rbf", pre |-> tx, rbf |-> rbf]
    /\ err' = "ok"
    /\ ops' = ops + 1
    /\ UNCHANGED <<raw, ret, other>>

\* ret = tx.serialize_preimage(i - 1), which caches nothing the toggle reads
RbfSerializePreimage ==
    /\ ops < MaxRbfOps
    /\ \E i \in 1..Len(tx[1].inputs[1]) :
          /\ Bind(serialize_preimage(tx[1], i), LAMBDA r :
                 /\ tx' = Some(r.t)
                 /\ err' = r.err
                 /\ ret' = IF r.err = "ok" THEN Some(r.v) ELSE NONE)
          /\ hist' = [last |-> "serialize_preimage", pre |-> tx, rbf |-> FALSE]
    /\ ops' = ops + 1
    /\ UNCHANGED <<raw, other>>

RbfNext == SetRbf \/ RbfSerializePreimage

SpecRbf == RbfInit /\ [][RbfNext]_vars

\* the sighash includes SINGLE: SINGLE or SINGLE|ANYONECANPAY
IncludesSingle(sighash) == sighash \in {Some(3), Some(131)}

\* C24: set_rbf on a transaction with for_swap set leaves nSequence as it was
\* for exactly the inputs whose sighash includes SINGLE and writes the rbf /
\* non-rbf value into every other input (sighash unset, ALL, NONE and their
\* ANYONECANPAY sums); with for_swap unset it writes it into every input
C24_SetRbfFrame ==
    hist.last = "set_rbf"
        => \A k \in 1..Len(tx[1].inputs[1]) :
              tx[1].inputs[1][k].nsequence
                  = IF hist.pre[1].for_swap /\ IncludesSingle(hist.pre[1].inputs[1][k].sighash)
                    THEN hist.pre[1].inputs[1][k].nsequence
                    ELSE <<IF hist.rbf THEN 253 ELSE 254, 255, 255, 255>>

\* set_rbf(True) ran under for_swap on an input with sighash ALL|ANYONECANPAY
C24_ToggledAllAnyoneCanPay ==
    /\ hist.last = "set_rbf"
    /\ hist.rbf
    /\ hist.pre[1].for_swap
    /\ hist.pre[1].inputs[1][1].sighash = Some(129)


-----------------------------------------------------------------------------
(* Claims on SpecCombine: what combine leaves of self's own data.           *)

\* every entry of the map before is in the map after, with the same value
KeepsEntries(before, after) ==
    \A k \in DOMAIN before : k \in DOMAIN after /\ after[k] = before[k]

\* a scalar field that was set keeps its value
KeepsScalar(before, after) == before # NONE => after = before

\* the input (or output) a of self before the call, and r after it
InputKeepsOwnData(a, r) ==
    /\ KeepsScalar(a.sighash, r.sighash)
    /\ KeepsScalar(a.redeem_script, r.redeem_script)
    /\ KeepsScalar(a.witness_script, r.witness_script)
    /\ KeepsScalar(a.script_sig, r.script_sig)
    /\ KeepsScalar(a.witness, r.witness)
    /\ KeepsEntries(a.part_sigs, r.part_sigs)
    /\ KeepsEntries(a.bip32_paths, r.bip32_paths)
    /\ KeepsEntries(a.unknown, r.unknown)

OutputKeepsOwnData(a, r) ==
    /\ KeepsScalar(a.redeem_script, r.redeem_script)
    /\ KeepsScalar(a.witness_script, r.witness_script)
    /\ KeepsEntries(a.bip32_paths, r.bip32_paths)
    /\ KeepsEntries(a.unknown, r.unknown)

\* C25: after a.combine_with_other_psbt(b) every scalar field of an input or
\* output of a that was set before the call (sighash type, redeem script,
\* witness script, final script-sig, final witness) still has a's value, and
\* the map entries (partial signatures, BIP-32 paths, unknown records) that
\* were present in a keep a's value
C25_CombineKeepsOwnData ==
    (hist.last = "combine_with_other_psbt" /\ err = "ok")
        => /\ \A i \in 1..Len(hist.pre[1].inputs[1]) :
                 InputKeepsOwnData(hist.pre[1].inputs[1][i], tx[1].inputs[1][i])
           /\ \A i \in 1..Len(hist.pre[1].outputs[1]) :
                 OutputKeepsOwnData(hist.pre[1].outputs[1][i], tx[1].outputs[1][i])

\* a and b both carried a sighash type, and the two differed
C25_BothCarrySighash ==
    /\ hist.last = "combine_with_other_psbt"
    /\ err = "ok"
    /\ hist.pre[1].inputs[1][1].sighash # NONE
    /\ hist.preo[1].inputs[1][1].sighash # NONE
    /\ hist.pre[1].inputs[1][1].sighash # hist.preo[1].inputs[1][1].sighash


-----------------------------------------------------------------------------
(* BIP69_sort on lists of outputs with equal, burn and asset outputs.       *)

MaxSortOps == 2

MaxSortLen == 3

\* a second burn-address output, of another value
BigBurnOutput == from_address_and_value(66, 9, <<>>)

SortOutputPool ==
    {PayOutput, SmallOutput, BurnOutput, BigBurnOutput, AssetOutput, OwnerOutput}

\* every list of up to MaxSortLen outputs of the pool, in any order and with
\* repetitions
SortOutputLists == UNION {[1..n -> SortOutputPool] : n \in 0..MaxSortLen}

SortInputLists ==
    {<<NewPartialTxInput(2, 0, EmptyMap), NewPartialTxInput(1, 1, EmptyMap),
       NewPartialTxInput(1, 0, EmptyMap)>>,
     <<NewPartialTxInput(1, 0, EmptyMap), NewPartialTxInput(1, 0, EmptyMap)>>}

SortInit ==
    /\ raw = <<>>
    /\ tx \in {Some(from_io(i, o, FALSE, fs)) :
                  i \in SortInputLists, o \in SortOutputLists, fs \in BOOLEAN}
    /\ other = NONE
    /\ err = "ok"
    /\ ret = NONE
    /\ ops = 0
    /\ hist = [last |-> "init", pre |-> NONE, preo |-> NONE, force |-> FALSE]

\* tx.BIP69_sort(inputs, outputs)
SortLists ==
    /\ ops < MaxSortOps
    /\ \E i \in BOOLEAN, o \in BOOLEAN : tx' = Some(BIP69_sort(tx[1], i, o))
    /\ err' = "ok"
    /\ hist' = Did("BIP69_sort", FALSE)
    /\ ops' = ops + 1
    /\ UNCHANGED <<raw, ret, other>>

\* tx._outputs.reverse(): the caller reorders the list between two sorts
SortReverseOutputs ==
    /\ ops < MaxSortOps
    /\ tx' = Some([tx[1] EXCEPT !.outputs =
                      Some([k \in 1..Len(@[1]) |-> @[1][Len(@[1]) + 1 - k]])])
    /\ err' = "ok"
    /\ hist' = Did("reverse", FALSE)
    /\ ops' = ops + 1
    /\ UNCHANGED <<raw, ret, other>>

SortNext == SortLists \/ SortReverseOutputs

SpecSort == SortInit /\ [][SortNext]_vars

\* the list zs holds the elements of xs, each as often
IsPermutation(zs, xs) == IsUnionOfLists(zs, xs, <<>>)

\* C26: BIP69_sort with its asset ordering only permutes: the outputs after
\* the call are those before it in the same multiplicity, none dropped and
\* none duplicated, also with several outputs of equal script and value,
\* several burn-address outputs or several asset outputs; likewise the inputs
C26_SortOnlyPermutes ==
    hist.last = "BIP69_sort"
        => /\ IsPermutation(tx[1].outputs[1], hist.pre[1].outputs[1])
           /\ IsPermutation(tx[1].inputs[1], hist.pre[1].inputs[1])

\* the sort ran on a list with a burn-address output and two equal asset
\* outputs
C26_EqualAssetOutputs ==
    /\ hist.last = "BIP69_sort"
    /\ ~hist.pre[1].for_swap
    /\ \E k \in 1..Len(hist.pre[1].outputs[1]) : hist.pre[1].outputs[1][k] = BurnOutput
    /\ Count(hist.pre[1].outputs[1], AssetOutput) = 2


-----------------------------------------------------------------------------
(* The input objects two transactions share after a join.                   *)

MaxShareOps == 2

\* a's list holds b's input objects once a.join_with_other_psbt(b) is past
\* its duplicate test: add_inputs(list(other_tx.inputs())) copies the list,
\* not its elements
SharesInputs(t, o) == o.partial /\ ~HasDuplicatePrevouts(t.inputs[1] \o o.inputs[1])

\* b's inputs as they read once a's list is ins: a shared object is found in
\* a's list under its prevout
SharedInputs(o, ins) ==
    [o EXCEPT !.inputs =
        Some([i \in 1..Len(@[1]) |->
                IF \E k \in 1..Len(ins) : ins[k].prevout = @[1][i].prevout
                THEN CHOOSE x \in {ins[k] : k \in 1..Len(ins)} : x.prevout = @[1][i].prevout
                ELSE @[1][i]])]

ShareInit ==
    /\ raw = <<>>
    /\ tx \in {Some(from_io(i, o, TRUE, fs)) :
                  i \in JoinInputs, o \in JoinOutputs, fs \in BOOLEAN}
    /\ other \in {Some(from_io(i, <<SmallOutput>>, TRUE, FALSE)) : i \in JoinInputs}
    /\ err = "ok"
    /\ ret = NONE
    /\ ops = 0
    /\ hist = [last |-> "init", pre |-> NONE, preo |-> NONE, shared |-> FALSE]

\* tx.join_with_other_psbt(other)
ShareJoin ==
    /\ ops < MaxShareOps
    /\ Bind(join_with_other_psbt(tx[1], other[1]), LAMBDA r :
           /\ tx' = Some(r.t)
           /\ other' = Some(r.o)
           /\ err' = r.err)
    /\ hist' = [last |-> "join_with_other_psbt", pre |-> tx, preo |-> other,
                shared |-> hist.shared \/ SharesInputs(tx[1], other[1])]
    /\ ops' = ops + 1
    /\ UNCHANGED <<raw, ret>>

\* tx.add_signature_to_txin(txin_idx=k - 1, signing_pubkey=..., sig=...):
\* the input written is an element of other's list too when it is shared
ShareSign ==
    /\ ops < MaxShareOps
    /\ \E k \in 1..Len(tx[1].inputs[1]) :
          Bind(add_signature_to_txin(tx[1], k, PubKey(2), Sig(2)), LAMBDA t :
              /\ tx' = Some(t)
              /\ other' = IF hist.shared THEN Some(SharedInputs(other[1], t.inputs[1]))
                          ELSE other)
    /\ err' = "ok"
    /\ hist' = [last |-> "add_signature_to_txin", pre |-> tx, preo |-> other,
                shared |-> hist.shared]
    /\ ops' = ops + 1
    /\ UNCHANGED <<raw, ret>>

ShareNext == ShareJoin \/ ShareSign

SpecShare == ShareInit /\ [][ShareNext]_vars

\* C27: a.join_with_other_psbt(b) does not modify b: after the call b's
\* inputs carry the partial signatures, script-sig and witness they had, b's
\* input and output lists are as before, and a signature added to an input
\* of a afterwards does not show in b
C27_JoinLeavesOther ==
    hist.last \in {"join_with_other_psbt", "add_signature_to_txin"}
        => /\ other[1].inputs = hist.preo[1].inputs
           /\ other[1].outputs = hist.preo[1].outputs

\* the join went through with b holding a partial signature
C27_JoinedSignedOther ==
    /\ hist.last = "join_with_other_psbt"
    /\ err = "ok"
    /\ \E i \in 1..Len(hist.preo[1].inputs[1]) :
          hist.preo[1].inputs[1][i].part_sigs # EmptyMap


-----------------------------------------------------------------------------
(* Claims on SpecTx: the setters and the lazy parse.                        *)

\* Transaction.inputs(): [err, v, t], v the list returned (NONE for None)
Transaction_inputs(t) ==
    IF t.inputs # NONE THEN TRet("ok", t.inputs, t)
    ELSE Bind(deserialize(t), LAMBDA d :
         IF d.err # "ok" THEN TRet(d.err, NONE, d.t) ELSE TRet("ok", d.t.inputs, d.t))

\* Transaction.outputs()
Transaction_outputs(t) ==
    IF t.outputs # NONE THEN TRet("ok", t.outputs, t)
    ELSE Bind(deserialize(t), LAMBDA d :
         IF d.err # "ok" THEN TRet(d.err, NONE, d.t) ELSE TRet("ok", d.t.outputs, d.t))

\* the version property
Transaction_version(t) ==
    Bind(deserialize(t), LAMBDA d :
    IF d.err # "ok" THEN TRet(d.err, NONE, d.t) ELSE TRet("ok", Some(d.t.version), d.t))

\* the locktime property
Transaction_locktime(t) ==
    Bind(deserialize(t), LAMBDA d :
    IF d.err # "ok" THEN TRet(d.err, NONE, d.t) ELSE TRet("ok", Some(d.t.locktime), d.t))

\* the parse of the raw bytes the object was constructed from
ParsedRaw == deserialize(Transaction(Some(raw)))

\* the raw bytes with the version, or the locktime, replaced
RawWith(field) ==
    IF field = "set_version" THEN NewVersion \o SubSeq(raw, 5, Len(raw))
    ELSE SubSeq(raw, 1, Len(raw) - 4) \o NewLocktime

\* C28: setting version or locktime on a Transaction built from raw bytes
\* keeps its inputs and outputs, whether the setter runs before or after the
\* first access: after the setter inputs() and outputs() return the parsed
\* inputs and outputs of the raw bytes, and serialize() differs from the raw
\* bytes only in the field that was set
C28_SettersKeepParsedData ==
    [][(/\ ops = 0
        /\ hist'.last \in {"set_version", "set_locktime"}
        /\ ParsedRaw.err = "ok")
       => /\ Transaction_inputs(tx').v = ParsedRaw.t.inputs
          /\ Transaction_outputs(tx').v = ParsedRaw.t.outputs
          /\ Bind(Transaction_serialize(tx'), LAMBDA r :
                 r.err = "ok" /\ r.v = RawWith(hist'.last))]_vars

\* the version was set on an object that had not been parsed yet
C28_SetBeforeFirstAccess ==
    /\ hist.last = "set_version"
    /\ ops = 1
    /\ tx.inputs = NONE
    /\ ParsedRaw.err = "ok"


\* C29: a parse failure is never masked: once deserialize() has failed on
\* the raw bytes (truncated data, trailing junk, no outputs), a later call of
\* deserialize(), inputs(), outputs(), version or locktime on the same object
\* fails too, and none returns partially parsed data or an unset list
C29_ParseFailureNotMasked ==
    (hist.last = "deserialize" /\ err # "ok")
        => /\ deserialize(tx).err # "ok"
           /\ Transaction_inputs(tx).err # "ok"
           /\ Transaction_outputs(tx).err # "ok"
           /\ Transaction_version(tx).err # "ok"
           /\ Transaction_locktime(tx).err # "ok"

\* deserialize() failed after the inputs had been parsed
C29_FailedAfterInputs ==
    /\ hist.last = "deserialize"
    /\ err # "ok"
    /\ tx.inputs # NONE


-----------------------------------------------------------------------------
(* Claims on SpecComplete: the signatures of a finalized multisig input.    *)

\* the ways to pick num_sig of the input's pubkeys that have a signature
SignatureChoices(x) ==
    {c \in SUBSET (1..Len(x.pubkeys)) :
        /\ Cardinality(c) = x.num_sig
        /\ \A i \in c : x.pubkeys[i] \in DOMAIN x.part_sigs}

\* the signatures of the pubkeys picked, in pubkey order
ChosenSigs(x, c) ==
    NonEmpty([i \in 1..Len(x.pubkeys) |-> IF i \in c THEN x.part_sigs[x.pubkeys[i]] ELSE <<>>])

\* the input a, no coinbase input and without a UTXO of another script type
\* than the wallet's, was not final, and finalize() made it r
FinalizedMultisig(a, r) ==
    /\ ~is_coinbase(a.prevout)
    /\ a.utxo = NONE /\ a.witness_utxo = NONE
    /\ a.script_type \in MultiSigTypes
    /\ a.num_sig >= 1
    /\ a.script_sig = NONE /\ a.witness = NONE
    /\ r.script_sig # NONE /\ r.witness # NONE

\* C30: the finalized script-sig (p2sh) or witness (p2wsh, p2wsh-p2sh) of a
\* multisig input with threshold num_sig carries exactly num_sig signatures,
\* each of one of the input's pubkeys and in pubkey order, even when more
\* than num_sig partial signatures were collected
C30_FinalizedCarriesNumSig ==
    (/\ hist.last = "finalize"
     /\ err = "ok"
     /\ FinalizedMultisig(hist.pre[1].inputs[1][1], tx[1].inputs[1][1]))
        => Bind(hist.pre[1].inputs[1][1], LAMBDA a :
           \E c \in SignatureChoices(a) :
              IF a.script_type = "p2sh"
              THEN tx[1].inputs[1][1].script_sig[1]
                       = <<0>> \o PushAll(ChosenSigs(a, c))
                         \o push_script(multisig_script(a.pubkeys, a.num_sig).v)
              ELSE tx[1].inputs[1][1].witness[1]
                       = construct_witness(<<<<>>>> \o ChosenSigs(a, c)
                                           \o <<multisig_script(a.pubkeys, a.num_sig).v>>))

\* finalize() ran on a 2-of-3 p2sh input holding three partial signatures
C30_ThreeSignatures ==
    /\ hist.last = "finalize"
    /\ err = "ok"
    /\ FinalizedMultisig(hist.pre[1].inputs[1][1], tx[1].inputs[1][1])
    /\ hist.pre[1].inputs[1][1].script_type = "p2sh"
    /\ Cardinality(DOMAIN hist.pre[1].inputs[1][1].part_sigs) = 3

=============================================================================
